---- MODULE Spec2Model ----
(***************************************************************************)
(* Conversation orchestration and escalation engine of the mental-health   *)
(* chatbot backend: message routing (AgentOrchestrator), the per-session   *)
(* conversation flow (ConversationFlowService), the chat transports        *)
(* (HTTP send_message, WebSocket handle_message) and the escalation        *)
(* service (EscalationService).                                            *)
(*                                                                         *)
(* Python dicts are modelled as functions over their key set; d.get(k, x)  *)
(* is Get(d, k, x), d.update(u) is Update(d, u).  Python None is the      *)
(* string None.  A call that raises is the dict Raise.                     *)
(***************************************************************************)
EXTENDS Integers, Sequences, FiniteSets, TLC

None == "None"

Get(d, k, default) == IF k \in DOMAIN d THEN d[k] ELSE default

Update(d, u) ==
  [k \in (DOMAIN d) \cup (DOMAIN u) |-> IF k \in DOMAIN u THEN u[k] ELSE d[k]]

Raise == [exception |-> TRUE]

IsRaise(r) == "exception" \in DOMAIN r

(***************************************************************************)
(* Messages.  The code only looks at messages through substring tests, so  *)
(* a message is one of a few concrete texts and every substring test is a  *)
(* table over them.                                                        *)
(***************************************************************************)
MsgHi       == "hi"
MsgPlain    == "i had a quiet day"
MsgKill     == "i want to kill myself"
MsgNoLive   == "i don't want to live"
MsgEndSess  == "i want to end it all before my next session"
MsgBook     == "book monday 8:00"
MsgYes      == "yes"
MsgNo       == "no"

Messages == {MsgHi, MsgPlain, MsgKill, MsgNoLive, MsgEndSess, MsgBook, MsgYes, MsgNo}

\* gemini_service.detect_crisis_situation: keywords of the except branch
DetectorCrisisKeyword(m) == m \in {MsgKill, MsgNoLive, MsgEndSess}

\* gemini_service._fallback_analysis: crisis_keywords (no "don't want to live")
FallbackCrisisKeyword(m) == m \in {MsgKill, MsgEndSess}

\* conversation_manager.process_message: simple greeting of at most 10 characters
SimpleGreeting(m) == m = MsgHi

(***************************************************************************)
(* Analysis dicts as produced by the classifier.  recommended_agent may be *)
(* missing; detected_tags is a list of strings, in which a malformed       *)
(* answer may carry a null element.                                        *)
(***************************************************************************)

UrgencyLevels == {"low", "medium", "high", "crisis"}

RecommendedAgents ==
  {"conversation_manager", "cbt_therapist", "mindfulness_coach", "booking_agent",
   "psychiatrist", "life_coach"}

AnalysisCore ==
  LET TagSets == {{}, {"anxiety"}, {"anxiety", "stress", "sleep"}, {None}}
      EmotionalStates == {"neutral", "anxious", "overwhelmed"}
  IN
  [emotional_state : EmotionalStates, urgency_level : UrgencyLevels,
   crisis_indicators : BOOLEAN, detected_tags : TagSets, intensity : {"medium"}]

Analyses ==
  AnalysisCore \cup
  {Update(a, [recommended_agent |-> r]) : a \in AnalysisCore, r \in RecommendedAgents}

\* models.schemas.AgentType
AgentType ==
  {"conversation_manager", "cbt_therapist", "mindfulness_coach", "psychiatrist",
   "relationship_counselor", "booking_agent"}

\* ', '.join(detected_tags) raises TypeError on a non-string element
JoinRaises(tags) == None \in tags

(***************************************************************************)
(* Environment of one call: the outcome of every collaborator the call     *)
(* may reach.                                                              *)
(*   lookup : UserCollection.get_user  (user, no user, exception)          *)
(*   llm    : text produced by the agent's task                            *)
(*   store  : helpline / expert / booking collections                      *)
(*   crew   : the collaborative Crew.kickoff                               *)
(***************************************************************************)

Envs ==
  LET CrewOutcomes == {"ok", "raise"}
      StoreOutcomes == {"ok", "raise"}
      LlmOutcomes == {"json", "json_no_text", "not_json", "limit"}
      LookupOutcomes == {"found", "none", "raise"}
  IN
  [lookup : LookupOutcomes, llm : LlmOutcomes, store : StoreOutcomes, crew : CrewOutcomes]

(***************************************************************************)
(* Agents.  execute_task never raises (base_agent.execute_task catches     *)
(* everything and returns a canned text), so the text an agent works on is *)
(* determined by env.llm:                                                  *)
(*   "json"          a JSON object with response_text                      *)
(*   "json_no_text"  a non-empty JSON object without response_text         *)
(*   "not_json"      text that holds no JSON object (also the canned text) *)
(*   "limit"         "Agent stopped due to iteration limit or time limit." *)
(***************************************************************************)
execute_task(env) == env.llm

HelplineRows == <<[issue |-> "Suicidal Thoughts", number |-> "+91-9152987821"],
                  [issue |-> "Mental Health Crisis", number |-> "1075"]>>

\* ---- conversation_manager ----
determine_next_agent(tags, emotional_state) ==
  IF emotional_state = "crisis" \/ tags \cap {"crisis", "suicidal", "self_harm"} # {}
    THEN "booking_agent"
  ELSE IF tags \cap {"severe_depression", "bipolar", "psychosis", "medication"} # {}
    THEN "psychiatrist"
  ELSE IF tags \cap {"anxiety", "depression", "negative_thoughts", "panic", "phobia"} # {}
    THEN "cbt_therapist"
  ELSE IF tags \cap {"stress", "sleep", "focus", "lifestyle", "mindfulness"} # {}
    THEN "mindfulness_coach"
  ELSE IF tags \cap {"relationships", "family", "workplace", "communication"} # {}
    THEN "relationship_counselor"
  ELSE "conversation_manager"

ConversationManager_process_message(message, context, env) ==
  LET tags == Get(context, "detected_tags", {})
      emotional_state == Get(context, "emotional_state", "neutral")
  IN IF SimpleGreeting(message)
       THEN [response |-> "greeting_template", recommended_agent |-> "conversation_manager",
             routing_confidence |-> "high"]
     ELSE IF JoinRaises(tags) THEN Raise
     ELSE IF execute_task(env) = "json"
       THEN [response |-> "llm_text",
             recommended_agent |-> determine_next_agent(tags, emotional_state),
             routing_confidence |-> IF tags = {} THEN "low"
                                    ELSE IF Cardinality(tags) <= 2 THEN "medium" ELSE "high"]
     ELSE IF execute_task(env) = "json_no_text"
       THEN [response |-> None,
             recommended_agent |-> determine_next_agent(tags, emotional_state),
             routing_confidence |-> IF tags = {} THEN "low"
                                    ELSE IF Cardinality(tags) <= 2 THEN "medium" ELSE "high"]
     ELSE [response |-> "greeting_template", recommended_agent |-> "conversation_manager",
           routing_confidence |-> "low"]

\* ---- cbt_therapist ----
determine_cbt_focus(tags, emotional_state) ==
  IF "anxiety" \in tags \/ emotional_state = "anxious" THEN "anxiety_management"
  ELSE IF "depression" \in tags \/ emotional_state = "depressed" THEN "behavioral_activation"
  ELSE IF "negative_thoughts" \in tags THEN "thought_challenging"
  ELSE IF "panic" \in tags THEN "panic_management"
  ELSE IF "behavioral_issues" \in tags THEN "behavior_modification"
  ELSE "general_cbt"

CBTTherapist_process_message(message, context, env) ==
  LET tags == Get(context, "detected_tags", {})
      emotional_state == Get(context, "emotional_state", "neutral")
      cbt_focus == determine_cbt_focus(tags, emotional_state)
  IN IF JoinRaises(tags) THEN Raise
     ELSE IF execute_task(env) = "limit"
       THEN [response |-> "cbt_system_error_text", cbt_technique |-> "system_error",
             follow_up_needed |-> TRUE]
     ELSE IF execute_task(env) = "json"
       THEN [response |-> "llm_text", cbt_technique |-> cbt_focus, follow_up_needed |-> TRUE]
     ELSE IF execute_task(env) = "json_no_text"
       THEN [response |-> None, cbt_technique |-> cbt_focus, follow_up_needed |-> TRUE]
     ELSE [response |-> "cbt_clarification_text", cbt_technique |-> "clarification",
           follow_up_needed |-> TRUE]

\* ---- mindfulness_coach ----
determine_mindfulness_focus(tags, emotional_state, intensity) ==
  IF intensity = "crisis" \/ emotional_state = "panic" THEN "emergency_grounding"
  ELSE IF "sleep" \in tags THEN "sleep_preparation"
  ELSE IF "stress" \in tags \/ emotional_state = "stressed" THEN "stress_relief"
  ELSE IF "anxiety" \in tags \/ emotional_state = "anxious" THEN "anxiety_calming"
  ELSE IF "focus" \in tags THEN "concentration_enhancement"
  ELSE IF "overwhelm" \in tags THEN "overwhelm_management"
  ELSE "general_mindfulness"

MindfulnessCoach_process_message(message, context, env) ==
  LET tags == Get(context, "detected_tags", {})
      emotional_state == Get(context, "emotional_state", "neutral")
      intensity == Get(context, "intensity", "medium")
  IN IF JoinRaises(tags) THEN Raise
     ELSE [response |-> "llm_text",
           technique_taught |-> determine_mindfulness_focus(tags, emotional_state, intensity)]

\* ---- booking_agent ----
determine_intervention_type(emotional_state, tags, urgency_level) ==
  IF emotional_state = "crisis" \/ urgency_level = "crisis"
     \/ tags \cap {"crisis", "suicidal", "self_harm", "psychosis", "immediate_danger"} # {}
    THEN "crisis"
  ELSE IF urgency_level = "high"
     \/ tags \cap {"severe_depression", "severe_anxiety", "panic_disorder", "bipolar",
                   "medication_needed"} # {}
    THEN "urgent"
  ELSE IF tags \cap {"medication", "psychiatric_evaluation", "specialized_therapy"} # {}
    THEN "referral"
  ELSE "scheduled"

\* the try block catches a failing collection: the lists assigned before the
\* failure stay, the rest keep their initial empty value
get_intervention_resources(intervention_type, env) ==
  LET ImmediateCrisisActions ==
        <<"Call crisis helpline immediately",
          "Contact emergency services if in immediate danger",
          "Reach out to trusted friend or family member",
          "Go to nearest emergency room if needed">>
  IN
  IF intervention_type = "crisis" /\ env.store = "ok"
    THEN [helplines |-> HelplineRows, immediate_actions |-> ImmediateCrisisActions]
    ELSE [helplines |-> <<>>, immediate_actions |-> <<>>]

create_booking_request(intervention_type, env) == env.store = "ok"

\* try: tried / except Exception: handler
Except(tried, handler) == IF IsRaise(tried) THEN handler ELSE tried

\* _crisis_fallback_response: the helplines again, or the minimal text
crisis_fallback_response(env) ==
  IF env.store = "ok"
    THEN [response |-> "crisis_fallback_text_with_helplines",
          intervention_type |-> "crisis",
          immediate_action_required |-> TRUE,
          escalation_completed |-> TRUE,
          resources_provided |-> [helplines |-> HelplineRows],
          follow_up_needed |-> TRUE]
    ELSE [response |-> "crisis_fallback_minimal_text",
          intervention_type |-> "crisis",
          immediate_action_required |-> TRUE,
          escalation_completed |-> TRUE]

\* the try block of process_message: execute_task, _get_intervention_resources
\* and _create_booking_request each catch their own exceptions
BookingAgent_process_message_try(message, context, env) ==
  LET tags == Get(context, "detected_tags", {})
      emotional_state == Get(context, "emotional_state", "neutral")
      urgency_level == Get(context, "urgency_level", "low")
      intervention_type == determine_intervention_type(emotional_state, tags, urgency_level)
  IN [response |-> "llm_text",
      intervention_type |-> intervention_type,
      resources_provided |-> get_intervention_resources(intervention_type, env),
      booking_created |-> IF intervention_type \in {"urgent", "scheduled"}
                            THEN create_booking_request(intervention_type, env)
                            ELSE FALSE,
      immediate_action_required |-> (intervention_type = "crisis"),
      follow_up_needed |-> TRUE,
      escalation_completed |-> TRUE]

\* the task description, built before the try block, joins the tags
BookingAgent_process_message(message, context, env) ==
  IF JoinRaises(Get(context, "detected_tags", {})) THEN Raise
  ELSE Except(BookingAgent_process_message_try(message, context, env),
              crisis_fallback_response(env))

\* agent registry of AgentOrchestrator.__init__, in registration order
RegisteredAgents == <<"conversation_manager", "cbt_therapist", "mindfulness_coach", "booking_agent">>

\* self.agent_priority of AgentOrchestrator.__init__, for the registered agents
agent_priority(agent_type) ==
  CASE agent_type = "conversation_manager" -> 1
    [] agent_type = "cbt_therapist" -> 2
    [] agent_type = "mindfulness_coach" -> 2
    [] agent_type = "booking_agent" -> 4

IsRegistered(agent_type) == \E i \in DOMAIN RegisteredAgents : RegisteredAgents[i] = agent_type

get_tags(agent_type) ==
  CASE agent_type = "conversation_manager" ->
         {"general", "routing", "multilingual", "adaptation", "initial_contact"}
    [] agent_type = "cbt_therapist" ->
         {"anxiety", "depression", "negative_thoughts", "behavioral_issues", "cbt",
          "cognitive_distortions"}
    [] agent_type = "mindfulness_coach" ->
         {"stress", "sleep", "focus", "lifestyle", "mindfulness", "anxiety", "panic", "overwhelm"}
    [] agent_type = "booking_agent" ->
         {"appointment", "escalation", "crisis", "emergency", "professional_referral", "safety"}

Agent_process_message(agent_type, message, context, env) ==
  CASE agent_type = "conversation_manager" -> ConversationManager_process_message(message, context, env)
    [] agent_type = "cbt_therapist" -> CBTTherapist_process_message(message, context, env)
    [] agent_type = "mindfulness_coach" -> MindfulnessCoach_process_message(message, context, env)
    [] agent_type = "booking_agent" -> BookingAgent_process_message(message, context, env)

(***************************************************************************)
(* AgentOrchestrator.  The context handed to an agent is the analysis      *)
(* merged with the user and session context; the agents read only keys of  *)
(* the analysis from it, so the analysis stands for the context.           *)
(* techniques_suggested is a scalar in the single-agent result and a list  *)
(* in the collaborative one: Scalar(x) and List(s) keep the two apart.     *)
(***************************************************************************)
Scalar(x) == [scalar |-> x]

List(s) == [list |-> s]

IsList(v) == "list" \in DOMAIN v

\* primary_response.get("technique_taught") or primary_response.get("cbt_technique")
technique_of(response) ==
  IF Get(response, "technique_taught", None) # None
    THEN response["technique_taught"]
    ELSE Get(response, "cbt_technique", None)

process_with_agent(agent_type, message, context, env) ==
  IF IsRegistered(agent_type)
    THEN Agent_process_message(agent_type, message, context, env)
    ELSE Agent_process_message("conversation_manager", message, context, env)

handle_crisis_situation(message, context, env) ==
  LET crisis_response == BookingAgent_process_message(message, context, env)
  IN IF IsRaise(crisis_response) THEN Raise
     ELSE [response |-> crisis_response["response"],
           primary_agent |-> "booking_agent",
           collaboration_used |-> FALSE,
           crisis_intervention |-> TRUE,
           immediate_actions |->
             Get(Get(crisis_response, "resources_provided", <<>>), "immediate_actions", <<>>),
           follow_up_needed |-> TRUE,
           escalation_needed |-> TRUE,
           intervention_type |-> Get(crisis_response, "intervention_type", "crisis")]

should_collaborate(analysis, primary_response) ==
  \/ Cardinality(Get(analysis, "detected_tags", {})) >= 3
  \/ Get(primary_response, "collaboration_recommended", FALSE)
  \/ Get(analysis, "emotional_state", "neutral") \in {"overwhelmed", "mixed", "complex"}

\* a max that keeps the last of the agents of highest score
get_secondary_agent_last_of_ties(tags, primary_agent) ==
  LET score(i) == Cardinality(tags \cap get_tags(RegisteredAgents[i]))
      scored == {i \in DOMAIN RegisteredAgents :
                   RegisteredAgents[i] # primary_agent /\ score(i) > 0}
  IN IF scored = {} THEN None
     ELSE RegisteredAgents[
            CHOOSE i \in scored :
              \A j \in scored : score(j) < score(i) \/ (score(j) = score(i) /\ j <= i)]

\* max(agent_scores, key=agent_scores.get): the first agent, in registration
\* order, among those of highest positive score
get_secondary_agent(tags, primary_agent) ==
  LET score(i) == Cardinality(tags \cap get_tags(RegisteredAgents[i]))
      scored == {i \in DOMAIN RegisteredAgents :
                   RegisteredAgents[i] # primary_agent /\ score(i) > 0}
  IN IF scored = {} THEN None
     ELSE RegisteredAgents[
            CHOOSE i \in scored :
              \A j \in scored : score(j) < score(i) \/ (score(j) = score(i) /\ i <= j)]

create_collaborative_crew(primary_agent_type, secondary_agent_type, primary_response, secondary_response, env) ==
  IF ~IsRegistered(primary_agent_type) \/ env.crew = "raise" THEN Raise
  ELSE [response |-> "crew_text",
        primary_agent |-> primary_agent_type,
        secondary_agent |-> secondary_agent_type,
        collaboration_used |-> TRUE,
        techniques_suggested |->
          List(<<technique_of(primary_response), technique_of(secondary_response)>>),
        follow_up_needed |-> TRUE]

get_collaborative_response(message, context, primary_agent_type, primary_response, env) ==
  LET secondary_agent_type ==
        get_secondary_agent(Get(context, "detected_tags", {}), primary_agent_type)
      primary_only == [response |-> primary_response["response"],
                       primary_agent |-> primary_agent_type,
                       collaboration_used |-> FALSE]
  IN IF secondary_agent_type # None /\ IsRegistered(secondary_agent_type)
       THEN LET secondary_response ==
                  process_with_agent(secondary_agent_type, message, context, env)
                crew == IF IsRaise(secondary_response) THEN Raise
                        ELSE create_collaborative_crew(primary_agent_type, secondary_agent_type,
                                                       primary_response, secondary_response, env)
            IN IF IsRaise(crew) THEN primary_only ELSE crew
       ELSE primary_only

fallback_response ==
  [response |-> "orchestrator_fallback_text",
   primary_agent |-> "conversation_manager",
   collaboration_used |-> FALSE,
   error_occurred |-> TRUE,
   follow_up_needed |-> TRUE]

\* The body of the try block once the context is built.
process_conversation_body(message, analysis, env) ==
  LET context == analysis
      primary_agent_type == Get(analysis, "recommended_agent", "conversation_manager")
  IN IF Get(analysis, "crisis_indicators", FALSE) \/ Get(analysis, "urgency_level", None) = "crisis"
       THEN handle_crisis_situation(message, context, env)
     ELSE LET primary_response == process_with_agent(primary_agent_type, message, context, env)
          IN IF IsRaise(primary_response) THEN Raise
             ELSE IF should_collaborate(analysis, primary_response)
               THEN get_collaborative_response(message, context, primary_agent_type,
                                               primary_response, env)
             ELSE [response |-> primary_response["response"],
                   primary_agent |-> primary_agent_type,
                   collaboration_used |-> FALSE,
                   techniques_suggested |-> Scalar(technique_of(primary_response)),
                   follow_up_needed |-> Get(primary_response, "follow_up_needed", FALSE),
                   escalation_needed |-> Get(primary_response, "escalation_completed", FALSE)]

\* A user lookup that raises leaves `context` unbound; the except handler
\* then evaluates _fallback_response(message, context), which raises
\* UnboundLocalError out of process_conversation.  Any later exception
\* finds `context` bound and yields the canned fallback.
process_conversation(message, analysis, env) ==
  IF env.lookup = "raise" THEN Raise
  ELSE LET body == process_conversation_body(message, analysis, env)
       IN IF IsRaise(body) THEN fallback_response ELSE body

(***************************************************************************)
(* Classifier (gemini_service).                                            *)
(***************************************************************************)
ClassifierFailed == [failed |-> TRUE]

fallback_analysis(message) ==
  IF FallbackCrisisKeyword(message)
    THEN [emotional_state |-> "crisis", intensity |-> "medium", detected_tags |-> {"crisis"},
          crisis_indicators |-> TRUE, recommended_agent |-> "booking_agent",
          urgency_level |-> "crisis"]
    ELSE [emotional_state |-> "neutral", intensity |-> "medium", detected_tags |-> {},
          crisis_indicators |-> FALSE, recommended_agent |-> "conversation_manager",
          urgency_level |-> "low"]

\* llm_analysis is the JSON object the model answered with, or ClassifierFailed
\* when the call raised or its text held no JSON object
analyze_intent_and_emotion(message, llm_analysis) ==
  IF "failed" \in DOMAIN llm_analysis THEN fallback_analysis(message) ELSE llm_analysis

\* detector: "crisis" / "no_crisis" (the JSON's is_crisis), "no_json", "exception"
DetectorOutcomes == {"crisis", "no_crisis", "no_json", "exception"}

detect_crisis_situation_no_fallback(message, detector) == detector = "crisis"

detect_crisis_situation(message, detector) ==
  CASE detector = "crisis" -> TRUE
    [] detector = "no_crisis" -> FALSE
    [] detector = "no_json" -> FALSE
    [] detector = "exception" -> DetectorCrisisKeyword(message)

(***************************************************************************)
(* ConversationFlowService.  A session dict keeps conversation_turn and    *)
(* techniques_used (a list the code rebuilds through set(), so a set), and *)
(* gains updated_at and crisis_detected when the code first writes them.   *)
(* S is the service's store: memory (session_memory), order (the dict's    *)
(* insertion order) and now (the clock read by datetime.utcnow()).         *)
(***************************************************************************)
NewSession == [conversation_turn |-> 0, techniques_used |-> {}]

get_or_create_session(S, session_id) ==
  IF session_id \in DOMAIN S.memory THEN S
  ELSE [S EXCEPT !.memory = Update(S.memory, [k \in {session_id} |-> NewSession]),
                 !.order = Append(S.order, session_id)]

\* the classifier with the assessment test moved before the high-urgency test
determine_conversation_stage_assessment_first(session_context, analysis) ==
  LET turn_count == Get(session_context, "conversation_turn", 0)
      emotional_state == Get(analysis, "emotional_state", "neutral")
      urgency_level == Get(analysis, "urgency_level", "low")
  IN IF urgency_level = "crisis" \/ Get(analysis, "crisis_indicators", FALSE) THEN "crisis"
     ELSE IF turn_count <= 1 THEN "greeting"
     ELSE IF turn_count <= 3 /\ emotional_state \in {"anxious", "depressed", "stressed"}
       THEN "assessment"
     ELSE IF urgency_level = "high" THEN "intervention"
     ELSE IF turn_count <= 8 /\ urgency_level = "medium" THEN "intervention"
     ELSE IF turn_count > 8 THEN "follow_up"
     ELSE "general"

determine_conversation_stage(session_context, analysis) ==
  LET turn_count == Get(session_context, "conversation_turn", 0)
      emotional_state == Get(analysis, "emotional_state", "neutral")
      urgency_level == Get(analysis, "urgency_level", "low")
  IN IF urgency_level = "crisis" \/ Get(analysis, "crisis_indicators", FALSE) THEN "crisis"
     ELSE IF turn_count <= 1 THEN "greeting"
     ELSE IF urgency_level = "high" THEN "intervention"
     ELSE IF turn_count <= 3 /\ emotional_state \in {"anxious", "depressed", "stressed"}
       THEN "assessment"
     ELSE IF turn_count <= 8 /\ urgency_level = "medium" THEN "intervention"
     ELSE IF turn_count > 8 THEN "follow_up"
     ELSE "general"

\* _handle_<stage>_flow: the orchestrator's result updated with the stage's additions
stage_additions(conversation_stage) ==
  CASE conversation_stage = "greeting" -> [welcome_message |-> TRUE]
    [] conversation_stage = "assessment" -> [assessment_stage |-> TRUE]
    [] conversation_stage = "intervention" -> [intervention_stage |-> TRUE]
    [] conversation_stage = "follow_up" -> [follow_up_stage |-> TRUE]
    [] OTHER -> << >>

handle_stage_flow(conversation_stage, message, analysis, env) ==
  LET response_data == process_conversation(message, analysis, env)
  IN IF IsRaise(response_data) THEN Raise
     ELSE Update(response_data, stage_additions(conversation_stage))

handle_crisis_flow(S, session_id, analysis) ==
  LET HelplineDict == [k \in {"Suicidal Thoughts", "Mental Health Crisis"} |->
                         IF k = "Suicidal Thoughts" THEN "+91-9152987821" ELSE "1075"]
  IN
  [S |-> [S EXCEPT !.memory[session_id] = Update(@, [crisis_detected |-> TRUE])],
   result |-> [response |-> "crisis_message_with_helplines",
               session_id |-> session_id,
               primary_agent |-> "booking_agent",
               agent_type |-> "booking_agent",
               detected_tags |-> Get(analysis, "detected_tags", {"crisis"}),
               escalation_needed |-> TRUE,
               crisis_intervention |-> TRUE,
               helpline_numbers |-> HelplineDict,
               suggested_resources |-> << >>,
               follow_up_needed |-> TRUE]]

handle_error_flow(session_id) ==
  [response |-> "technical_difficulties_text",
   session_id |-> session_id,
   agent_type |-> "conversation_manager",
   detected_tags |-> {"technical_error"},
   conversation_stage |-> "error",
   escalation_needed |-> FALSE,
   error_occurred |-> TRUE]

\* ChatMessage(content=ai_response, agent_type=analysis.get("recommended_agent", ...))
\* is validated by pydantic: content must be a str, agent_type an AgentType
update_conversation_history_raises(ai_response, analysis) ==
  \/ ai_response = None
  \/ Get(analysis, "recommended_agent", "conversation_manager") \notin AgentType

(***************************************************************************)
(* Session ceiling of _update_session_memory.  The code keeps at most 100  *)
(* sessions and evicts the 50 oldest; the model scales both numbers down   *)
(* so that an eviction happens within a few calls.                         *)
(***************************************************************************)
SessionCeiling == 2

EvictBatch == 1

Range(s) == {s[i] : i \in DOMAIN s}

\* key=lambda x: x[1].get("updated_at", datetime.min)
sort_key(memory, s) == Get(memory[s], "updated_at", 0)

Position(order, s) == CHOOSE i \in DOMAIN order : order[i] = s

\* sorted() is stable: equal keys keep the dict's insertion order
sorted_before(memory, order, a, b) ==
  \/ sort_key(memory, a) < sort_key(memory, b)
  \/ sort_key(memory, a) = sort_key(memory, b) /\ Position(order, a) < Position(order, b)

\* a trim that drops the sessions inserted first, whatever their updated_at
oldest_sessions_by_insertion(memory, order) ==
  {s \in DOMAIN memory :
     Cardinality({t \in DOMAIN memory : Position(order, t) < Position(order, s)}) < EvictBatch}

\* sorted(...)[:50]
oldest_sessions(memory, order) ==
  {s \in DOMAIN memory :
     Cardinality({t \in DOMAIN memory : sorted_before(memory, order, t, s)}) < EvictBatch}

new_technique_items(new_techniques) ==
  IF IsList(new_techniques) THEN Range(new_techniques["list"]) ELSE {new_techniques["scalar"]}

update_session_memory(S, session_id, session_context, response_data) ==
  LET touched == Update(session_context, [updated_at |-> S.now])
      updated ==
        IF "techniques_suggested" \in DOMAIN response_data
          THEN Update(touched,
                 [techniques_used |->
                    touched["techniques_used"]
                      \cup new_technique_items(response_data["techniques_suggested"])])
          ELSE touched
      memory == Update(S.memory, [k \in {session_id} |-> updated])
      evicted == IF Cardinality(DOMAIN memory) > SessionCeiling
                   THEN oldest_sessions(memory, S.order) ELSE {}
  IN [memory |-> [k \in (DOMAIN memory) \ evicted |-> memory[k]],
      order |-> SelectSeq(S.order, LAMBDA k : k \notin evicted),
      now |-> S.now + 1]

final_response(session_id, response_data, analysis, conversation_stage) ==
  [response |-> response_data["response"],
   session_id |-> session_id,
   agent_type |-> Get(response_data, "primary_agent", "conversation_manager"),
   detected_tags |-> Get(analysis, "detected_tags", {}),
   conversation_stage |-> conversation_stage,
   escalation_needed |-> Get(response_data, "escalation_needed", FALSE),
   suggested_resources |-> Get(response_data, "suggested_resources", << >>),
   follow_up_needed |-> Get(response_data, "follow_up_needed", FALSE)]

\* The whole pipeline of process_user_message on store S.  Returns the new
\* store, the dict returned to the caller, the path taken and, on the normal
\* path, the orchestrator's response_data.
process_user_message(S, session_id, message, llm_analysis, detector, env) ==
  LET S1 == get_or_create_session(S, session_id)
      analysis == analyze_intent_and_emotion(message, llm_analysis)
      is_crisis == detect_crisis_situation(message, detector)
  IN IF is_crisis
       THEN LET crisis == handle_crisis_flow(S1, session_id, analysis)
            IN [S |-> crisis.S, result |-> crisis.result, path |-> "crisis",
                response_data |-> << >>]
     ELSE
       LET session_context ==
             Update(S1.memory[session_id],
                    [conversation_turn |-> Get(S1.memory[session_id], "conversation_turn", 0) + 1])
           S2 == [S1 EXCEPT !.memory[session_id] = session_context]
           conversation_stage == determine_conversation_stage(session_context, analysis)
           response_data == handle_stage_flow(conversation_stage, message, analysis, env)
       IN IF IsRaise(response_data)
            THEN [S |-> S2, result |-> handle_error_flow(session_id), path |-> "error",
                  response_data |-> << >>]
          ELSE IF update_conversation_history_raises(response_data["response"], analysis)
            THEN [S |-> S2, result |-> handle_error_flow(session_id), path |-> "error",
                  response_data |-> response_data]
          ELSE [S |-> update_session_memory(S2, session_id, session_context, response_data),
                result |-> final_response(session_id, response_data, analysis, conversation_stage),
                path |-> "normal",
                response_data |-> response_data]

(***************************************************************************)
(* State.                                                                  *)
(*   session_memory, session_order, now : conversation_flow_service        *)
(*   flow_result   : the dict the last process_user_message call returned  *)
(*   flow_call     : history of that call (what it was called on)          *)
(*   session_log   : per session id, history over all its calls            *)
(*   orch_call, orch_result : the last direct process_conversation call    *)
(*   booking_sessions : chat.py's booking flow state per user              *)
(*   http_reply, ws_frame : what the last send_message / handle_message    *)
(*                   delivered; chat_call : history of that call           *)
(*   utc_clock     : the wall clock datetime.utcnow() reads, in ms        *)
(*   escalation_record, escalation_result, follow_up : the record the last *)
(*                   trigger_escalation built, what it returned and the    *)
(*                   follow-up it scheduled                                *)
(* escalation_call : the arguments of the last trigger_escalation call,    *)
(*                   the steps it ran in order, whether the record was     *)
(*                   saved, and the ids the earlier calls returned         *)
(* escalations_triggered : how many times trigger_escalation was called    *)
(* booking_call, booking_reply : the last request to routers/booking.py    *)
(*                   and its reply                                         *)
(* stage_call, stage_result : the arguments and the value of the last      *)
(*                   _determine_conversation_stage evaluation              *)
(* in_flight       : the process_user_message calls suspended at the user  *)
(*                   lookup, by session id                                 *)
(* agent_call, agent_result : the last direct call of an agent's           *)
(*                   process_message and what it returned                  *)
(* classifier_call, classifier_result : the last message given to          *)
(*                   gemini_service with the model's answers, and what     *)
(*                   the two classifier functions returned                 *)
(* secondary_call, secondary_result : the arguments and the value of the   *)
(*                   last _get_secondary_agent evaluation                  *)
(* heap, held_object, store_order, store_now : the session dicts as        *)
(*                   objects, the object session_memory holds for each     *)
(*                   session id, the insertion order of its keys and the   *)
(*                   clock                                                 *)
(* pending, calls_begun : the suspended process_user_message calls, each   *)
(*                   with the dict object it holds, and how many calls     *)
(*                   were begun                                            *)
(* connections, active_connections : the WebSocket connections of          *)
(*                   /ws/{user_id}, each with its user and how far its     *)
(*                   endpoint got, and the manager's active_connections    *)
(***************************************************************************)
VARIABLES session_memory, session_order, now, flow_result, flow_call, session_log,
          orch_call, orch_result,
          booking_sessions, http_reply, ws_frame, chat_call,
          utc_clock, escalation_record, escalation_result, follow_up,
          escalation_call, escalations_triggered, booking_call, booking_reply,
          stage_call, stage_result, in_flight, agent_call, agent_result,
          classifier_call, classifier_result,
          secondary_call, secondary_result,
          heap, held_object, store_order, store_now, pending, calls_begun,
          connections, active_connections

flow_vars == <<session_memory, session_order, now, flow_result, flow_call, session_log>>

orch_vars == <<orch_call, orch_result>>

chat_vars == <<booking_sessions, http_reply, ws_frame, chat_call>>

escalation_vars == <<utc_clock, escalation_record, escalation_result, follow_up,
                     escalation_call, escalations_triggered, booking_call, booking_reply>>

stage_vars == <<stage_call, stage_result>>

async_vars == <<in_flight>>

agent_vars == <<agent_call, agent_result>>

classifier_vars == <<classifier_call, classifier_result>>

secondary_vars == <<secondary_call, secondary_result>>

serial_vars == <<heap, held_object, store_order, store_now, pending, calls_begun>>

ws_vars == <<connections, active_connections>>

vars == <<session_memory, session_order, now, flow_result, flow_call, session_log,
          orch_call, orch_result,
          booking_sessions, http_reply, ws_frame, chat_call,
          utc_clock, escalation_record, escalation_result, follow_up,
          escalation_call, escalations_triggered, booking_call, booking_reply,
          stage_call, stage_result, in_flight, agent_call, agent_result,
          classifier_call, classifier_result,
          secondary_call, secondary_result,
          heap, held_object, store_order, store_now, pending, calls_begun,
          connections, active_connections>>

\* the WebSocket connections one behaviour opens
MaxConnections == 3

AllSessionIds == 1 .. (SessionCeiling + 1)

NoCall == << >>

Init ==
  /\ session_memory = << >>
  /\ session_order = << >>
  /\ now = 1
  /\ flow_result = NoCall
  /\ flow_call = NoCall
  /\ session_log = [s \in AllSessionIds |->
                      [calls |-> 0, only_benign |-> TRUE, turn_seen |-> 0, returned |-> {}]]
  /\ orch_call = NoCall
  /\ orch_result = NoCall
  /\ booking_sessions = << >>
  /\ http_reply = NoCall
  /\ ws_frame = NoCall
  /\ chat_call = NoCall
  /\ utc_clock = 0
  /\ escalation_record = NoCall
  /\ escalation_result = NoCall
  /\ follow_up = NoCall
  /\ escalation_call = NoCall
  /\ escalations_triggered = 0
  /\ booking_call = NoCall
  /\ booking_reply = NoCall
  /\ stage_call = NoCall
  /\ stage_result = NoCall
  /\ in_flight = << >>
  /\ agent_call = NoCall
  /\ agent_result = NoCall
  /\ classifier_call = NoCall
  /\ classifier_result = NoCall
  /\ secondary_call = NoCall
  /\ secondary_result = NoCall
  /\ heap = << >>
  /\ held_object = << >>
  /\ store_order = << >>
  /\ store_now = 1
  /\ pending = << >>
  /\ calls_begun = 0
  /\ connections = [c \in 1 .. MaxConnections |-> [status |-> "unused"]]
  /\ active_connections = << >>

\* technique identifiers returned by the capabilities process_conversation invoked
capability_techniques(message, analysis, env) ==
  LET primary_agent_type == Get(analysis, "recommended_agent", "conversation_manager")
      primary_response == process_with_agent(primary_agent_type, message, analysis, env)
      secondary_agent_type ==
        get_secondary_agent(Get(analysis, "detected_tags", {}), primary_agent_type)
      secondary_response == process_with_agent(secondary_agent_type, message, analysis, env)
  IN IF env.lookup = "raise" THEN {}
     ELSE IF Get(analysis, "crisis_indicators", FALSE)
             \/ Get(analysis, "urgency_level", None) = "crisis" THEN {}
     ELSE IF IsRaise(primary_response) THEN {}
     ELSE ({technique_of(primary_response)}
           \cup (IF should_collaborate(analysis, primary_response)
                    /\ secondary_agent_type # None
                    /\ ~IsRaise(secondary_response)
                   THEN {technique_of(secondary_response)} ELSE {})) \ {None}

\* a benign message: not a crisis for the detector nor the analysis, urgency
\* low, emotional state neutral
Benign(message, analysis, detector) ==
  /\ detector \in {"no_crisis", "no_json"} \/ (detector = "exception" /\ ~DetectorCrisisKeyword(message))
  /\ ~Get(analysis, "crisis_indicators", FALSE)
  /\ Get(analysis, "urgency_level", "low") = "low"
  /\ Get(analysis, "emotional_state", "neutral") = "neutral"

\* what one process_user_message call, with outcome out, does to the service's
\* state and to the history of calls
FlowCall(session_id, message, llm_analysis, detector, env, out) ==
  LET analysis == analyze_intent_and_emotion(message, llm_analysis)
      log == session_log[session_id]
      benign == Benign(message, analysis, detector)
  IN /\ session_memory' = out.S.memory
     /\ session_order' = out.S.order
     /\ now' = out.S.now
     /\ flow_result' = out.result
     /\ flow_call' =
          [session_id |-> session_id,
           new_session |-> session_id \notin DOMAIN session_memory,
           prior_crisis_detected |->
             (session_id \in DOMAIN session_memory
              /\ Get(session_memory[session_id], "crisis_detected", FALSE)),
           detector_reported |->
             (detector = "crisis" \/ (detector = "exception" /\ DetectorCrisisKeyword(message))),
           detector_failed |-> (detector = "exception"),
           benign |-> benign,
           plain |-> (benign /\ "recommended_agent" \notin DOMAIN analysis
                      /\ Cardinality(Get(analysis, "detected_tags", {})) < 3),
           only_benign |-> (log.only_benign /\ benign),
           call_index |-> log.calls + 1,
           turn_before |-> log.turn_seen,
           path |-> out.path,
           response_data |-> out.response_data]
     /\ session_log' =
          [session_log EXCEPT ![session_id] =
             [calls |-> log.calls + 1,
              only_benign |-> (log.only_benign /\ benign),
              turn_seen |-> IF session_id \in DOMAIN out.S.memory
                              THEN out.S.memory[session_id]["conversation_turn"] ELSE 0,
              returned |-> log.returned
                             \cup (IF out.path = "crisis" THEN {}
                                   ELSE capability_techniques(message, analysis, env))]]

ProcessUserMessage(session_id, message, llm_analysis, detector, env) ==
  LET S == [memory |-> session_memory, order |-> session_order, now |-> now]
  IN \E out \in {process_user_message(S, session_id, message, llm_analysis, detector, env)} :
       /\ FlowCall(session_id, message, llm_analysis, detector, env, out)
       /\ UNCHANGED <<orch_vars, chat_vars, escalation_vars, stage_vars, async_vars, agent_vars, classifier_vars, secondary_vars, serial_vars, ws_vars>>

(***************************************************************************)
(* Inputs of the flow specifications.                                      *)
(***************************************************************************)
MaxCalls == 2

MaxCallsLong == 10

Analysis(emotional_state, urgency_level, crisis_indicators, detected_tags) ==
  [emotional_state |-> emotional_state, urgency_level |-> urgency_level,
   crisis_indicators |-> crisis_indicators, detected_tags |-> detected_tags,
   intensity |-> "medium"]

Recommending(analysis, agent_type) == Update(analysis, [recommended_agent |-> agent_type])

BenignAnalyses ==
  {Analysis("neutral", "low", FALSE, {}),
   Recommending(Analysis("neutral", "low", FALSE, {}), "conversation_manager"),
   Recommending(Analysis("neutral", "low", FALSE, {"anxiety"}), "cbt_therapist")}

FlowAnalyses ==
  BenignAnalyses \cup
  {Recommending(Analysis("anxious", "medium", FALSE, {"anxiety"}), "mindfulness_coach"),
   Recommending(Analysis("neutral", "high", FALSE, {}), "booking_agent"),
   Recommending(Analysis("neutral", "low", FALSE, {"anxiety", "stress", "sleep"}), "cbt_therapist"),
   Recommending(Analysis("overwhelmed", "low", FALSE, {}), "psychiatrist"),
   Recommending(Analysis("neutral", "low", FALSE, {}), "life_coach"),
   Analysis("neutral", "low", FALSE, {None}),
   Analysis("neutral", "low", TRUE, {}),
   Recommending(Analysis("anxious", "crisis", FALSE, {"anxiety"}), "cbt_therapist")}

\* the collaborators an agent reaches beyond the user lookup fail together or not at all
FlowEnvs == {env \in Envs : /\ env.llm \in {"json", "json_no_text", "limit"}
                            /\ env.store = env.crew}

\* one conversation, every kind of analysis and collaborator outcome
Next ==
  LET FlowMessages == {MsgHi, MsgPlain, MsgKill}
  IN
  \E message \in FlowMessages, llm_analysis \in FlowAnalyses \cup {ClassifierFailed},
     detector \in DetectorOutcomes, env \in FlowEnvs :
    /\ session_log[1].calls < MaxCalls
    /\ ProcessUserMessage(1, message, llm_analysis, detector, env)

Spec == Init /\ [][Next]_vars

\* one conversation of benign messages only, long enough to reach follow_up
NextLong ==
  \E message \in {MsgHi, MsgPlain}, llm_analysis \in BenignAnalyses \cup {ClassifierFailed},
     detector \in {"no_crisis", "exception"},
     env \in {e \in FlowEnvs : e.store = "ok" /\ e.lookup \in {"found", "raise"}} :
    /\ session_log[1].calls < MaxCallsLong
    /\ ProcessUserMessage(1, message, llm_analysis, detector, env)

SpecLong == Init /\ [][NextLong]_vars

RECURSIVE CallsUpTo(_, _)
CallsUpTo(log, n) == IF n = 0 THEN 0 ELSE log[n].calls + CallsUpTo(log, n - 1)

TotalCalls == CallsUpTo(session_log, SessionCeiling + 1)

NextEvict ==
      \* several conversations, enough of them to exceed the session ceiling and
      \* enough calls to come back to an evicted one
  LET MaxCallsEvict == SessionCeiling + 4
  IN
  \E session_id \in AllSessionIds, detector \in {"no_crisis", "crisis"} :
    /\ TotalCalls < MaxCallsEvict
    /\ ProcessUserMessage(session_id, MsgPlain, Analysis("neutral", "low", FALSE, {}),
                          detector,
                          [lookup |-> "found", llm |-> "json", store |-> "ok", crew |-> "ok"])

SpecEvict == Init /\ [][NextEvict]_vars

(***************************************************************************)
(* Direct calls of AgentOrchestrator.process_conversation (the /route      *)
(* endpoint and the flow handlers call it).  The orchestrator keeps no     *)
(* state between calls, so a behaviour is one call on any input.           *)
(***************************************************************************)
ProcessConversation(message, analysis, env) ==
  /\ orch_call' = [message |-> message, analysis |-> analysis, env |-> env]
  /\ orch_result' = process_conversation(message, analysis, env)
  /\ UNCHANGED <<flow_vars, chat_vars, escalation_vars, stage_vars, async_vars, agent_vars, classifier_vars, secondary_vars, serial_vars, ws_vars>>

NextOrch ==
  /\ orch_call = NoCall
  /\ \E message \in {MsgHi, MsgPlain}, analysis \in Analyses, env \in Envs :
       ProcessConversation(message, analysis, env)

SpecOrch == Init /\ [][NextOrch]_vars

(***************************************************************************)
(* routers/chat.py: POST /message.  The substring tests of send_message on *)
(* the lower-cased message, for the messages of the model.                 *)
(***************************************************************************)
\* any(keyword in user_message for keyword in booking_keywords)
HasBookingKeyword(m) == m \in {MsgBook, MsgEndSess}

\* re.search(r"book (\w+) (\d{1,2}:\d{2})", user_message)
SlotRequest(m) == m = MsgBook

\* "no" in user_message or "cancel" in user_message
SaysNo(m) == m = MsgNo

\* "yes" in user_message
SaysYes(m) == m = MsgYes

BookingReply(response, detected_tags, session_id) ==
  [status |-> 200, response |-> response, agent_type |-> "booking_agent",
   detected_tags |-> detected_tags, escalation_needed |-> FALSE, session_id |-> session_id]

\* ChatResponse(response=flow_response["response"], ...): a missing key raises
\* KeyError, pydantic rejects a response that is not a str, an agent_type
\* outside AgentType and a tag that is not a str
ChatResponse_raises(flow_response) ==
  \/ ~({"response", "agent_type", "detected_tags", "escalation_needed",
        "suggested_resources", "session_id"} \subseteq DOMAIN flow_response)
  \/ flow_response["response"] = None
  \/ flow_response["agent_type"] \notin AgentType
  \/ None \in flow_response["detected_tags"]

ChatResponse(flow_response) ==
  [status |-> 200,
   response |-> flow_response["response"],
   agent_type |-> flow_response["agent_type"],
   detected_tags |-> flow_response["detected_tags"],
   escalation_needed |-> flow_response["escalation_needed"],
   helpline_numbers |-> Get(flow_response, "helpline_numbers", None),
   suggested_resources |-> flow_response["suggested_resources"],
   session_id |-> flow_response["session_id"]]

(***************************************************************************)
(* The slots of services/timetable_service.py as send_message sees them:   *)
(* available_slots maps a date to its "HH:MM - HH:MM" strings; the model   *)
(* keeps the slots in the order the two loops of send_message visit them.  *)
(***************************************************************************)
Slot(date, start, end) == [date |-> date, start |-> start, end |-> end]

\* f"{date_str} {t.split(' - ')[0]}"
full_slot(slot) == <<slot.date, slot.start>>

\* a selection that trusts the request: any slot the day and time match
first_matching_slot_unchecked(available_slots, matching) ==
  IF matching = {} THEN None
  ELSE full_slot(CHOOSE slot \in matching : TRUE)

\* the two loops over session_state["available_slots"]: the first slot whose
\* weekday contains the requested day and whose text starts with the requested
\* time; matching is the set of slots for which both tests succeed
first_matching_slot(available_slots, matching) ==
  LET hits == {i \in DOMAIN available_slots : available_slots[i] \in matching}
  IN IF hits = {} THEN None
     ELSE full_slot(available_slots[CHOOSE i \in hits : \A j \in hits : i <= j])

\* the emails that went out before the first failure
emails_sent(email) ==
  IF email = "ok" THEN <<"confirmation", "reminder">>
  ELSE IF email = "reminder_raises" THEN <<"confirmation">>
  ELSE << >>

\* the branches of send_message that answer from the booking flow state
\* B[user_id]; matching: the slots the request's day and time match, email:
\* outcome of send_confirmation / send_reminder
booking_state_reply(B, user_id, message, session_id, matching, email) ==
  LET state == B[user_id]["state"]
      removed == [u \in (DOMAIN B) \ {user_id} |-> B[u]]
      cancelled == [B |-> removed,
                    reply |-> BookingReply("booking_cancelled", {"booking"}, session_id),
                    emails |-> << >>]
      selected_full_slot == first_matching_slot(B[user_id]["available_slots"], matching)
  IN IF state = "awaiting_slot_selection"
       THEN IF SlotRequest(message)
              THEN IF selected_full_slot # None
                     THEN [B |-> [B EXCEPT ![user_id]["selected_slot"] = selected_full_slot,
                                           ![user_id]["state"] = "awaiting_confirmation"],
                           reply |-> BookingReply("slot_selected", {"booking"}, session_id),
                           emails |-> << >>]
                     ELSE [B |-> B,
                           reply |-> BookingReply("slot_not_found", {"booking"}, session_id),
                           emails |-> << >>]
            ELSE IF SaysNo(message) THEN cancelled
            ELSE [B |-> B, reply |-> BookingReply("select_slot_prompt", {"booking"}, session_id),
                  emails |-> << >>]
     ELSE IF SaysYes(message)
       THEN IF email = "ok"
              THEN [B |-> removed,
                    reply |-> BookingReply("booking_confirmed", {"booking", "confirmed"},
                                           session_id),
                    emails |-> emails_sent(email)]
              ELSE [B |-> B,
                    reply |-> BookingReply("email_error", {"booking", "error"}, session_id),
                    emails |-> emails_sent(email)]
     ELSE IF SaysNo(message) THEN cancelled
     ELSE [B |-> B, reply |-> BookingReply("confirm_prompt", {"booking"}, session_id),
           emails |-> << >>]

\* the branch of send_message taken on a booking keyword; available_slots:
\* what get_available_counselling_slots() returned
booking_intent_reply(B, user_id, session_id, available_slots) ==
  IF available_slots # << >>
    THEN [B |-> Update(B, [u \in {user_id} |->
                             [state |-> "awaiting_slot_selection",
                              available_slots |-> available_slots,
                              selected_slot |-> None]]),
          reply |-> BookingReply("slots_list", {"booking"}, session_id)]
    ELSE [B |-> B, reply |-> BookingReply("no_slots", {"booking"}, session_id)]

MaxChatCalls == 3

ChatCalls == IF chat_call = NoCall THEN 0 ELSE chat_call.index

\* history of the user's booking: the confirmation emails sent for the slot
\* selected last, and whether the booking session went through a selection
BookingHistory ==
  IF chat_call = NoCall THEN [confirmations |-> 0, selection_made |-> FALSE]
  ELSE [confirmations |-> chat_call.confirmations, selection_made |-> chat_call.selection_made]

MessageInCrisis(message, analysis, detector) ==
  \/ detector = "crisis"
  \/ detector = "exception" /\ DetectorCrisisKeyword(message)
  \/ Get(analysis, "crisis_indicators", FALSE)
  \/ Get(analysis, "urgency_level", None) = "crisis"

\* POST /message from user_id on session_id.  llm_analysis, detector and env
\* are what the classifier, the crisis detector and the collaborators answer
\* for this message, whether or not send_message gets to ask them.
SendMessage(user_id, session_id, message, llm_analysis, detector, env) ==
  LET HTTP500 == [status |-> 500, detail |-> "Error processing your message. Please try again."]
      \* what get_available_counselling_slots() may return, the empty dict included
      AvailableSlots ==
        {<< >>,
         <<Slot("2026-01-05", "08:00", "08:45")>>,
         <<Slot("2026-01-05", "08:00", "08:45"), Slot("2026-01-05", "10:00", "10:45")>>,
         <<Slot("2026-01-05", "10:00", "10:45"), Slot("2026-01-06", "08:00", "08:45")>>}
      SlotUniverse ==
        {Slot("2026-01-05", "08:00", "08:45"), Slot("2026-01-05", "10:00", "10:45"),
         Slot("2026-01-06", "08:00", "08:45")}
      \* the outcomes of the two emails of a confirmation
      EmailOutcomes == {"ok", "confirmation_raises", "reminder_raises"}
      analysis == analyze_intent_and_emotion(message, llm_analysis)
      state_before == IF user_id \in DOMAIN booking_sessions
                        THEN booking_sessions[user_id]["state"] ELSE None
      history(crisis_checked, branch, confirmations, selection_made) ==
        [endpoint |-> "http", index |-> ChatCalls + 1, branch |-> branch,
         in_crisis |-> MessageInCrisis(message, analysis, detector),
         crisis_checked |-> crisis_checked,
         state_before |-> state_before,
         selection_before |-> BookingHistory.selection_made,
         confirmations |-> confirmations,
         selection_made |-> selection_made]
  IN /\ IF user_id \in DOMAIN booking_sessions
          THEN \E matching \in SUBSET SlotUniverse, email \in EmailOutcomes :
                 \E r \in {booking_state_reply(booking_sessions, user_id, message, session_id,
                                               matching, email)} :
                   /\ booking_sessions' = r.B
                   /\ http_reply' = r.reply
                   /\ chat_call' =
                        history(FALSE, "booking_state",
                                IF r.reply.response = "slot_selected" THEN 0
                                ELSE IF "confirmation" \in Range(r.emails)
                                  THEN BookingHistory.confirmations + 1
                                ELSE BookingHistory.confirmations,
                                IF r.reply.response = "slot_selected" THEN TRUE
                                ELSE IF user_id \notin DOMAIN r.B THEN FALSE
                                ELSE BookingHistory.selection_made)
                   /\ UNCHANGED flow_vars
        ELSE IF HasBookingKeyword(message)
          THEN \E available_slots \in AvailableSlots :
                 \E r \in {booking_intent_reply(booking_sessions, user_id, session_id,
                                                available_slots)} :
                   /\ booking_sessions' = r.B
                   /\ http_reply' = r.reply
                   /\ chat_call' = history(FALSE, "booking_intent",
                                           BookingHistory.confirmations, FALSE)
                   /\ UNCHANGED flow_vars
        ELSE LET S == [memory |-> session_memory, order |-> session_order, now |-> now]
             IN \E out \in {process_user_message(S, session_id, message, llm_analysis,
                                                 detector, env)} :
                  /\ FlowCall(session_id, message, llm_analysis, detector, env, out)
                  /\ http_reply' = IF ChatResponse_raises(out.result)
                                     THEN HTTP500 ELSE ChatResponse(out.result)
                  /\ chat_call' = history(TRUE, "flow", BookingHistory.confirmations,
                                          BookingHistory.selection_made)
                  /\ UNCHANGED booking_sessions
     /\ UNCHANGED <<ws_frame, orch_vars, escalation_vars, stage_vars, async_vars, agent_vars, classifier_vars, secondary_vars, serial_vars, ws_vars>>

(***************************************************************************)
(* services/websocket_service.py.  handle_message calls                    *)
(* self.conversation_service.process_message; ConversationFlowService      *)
(* defines no such method, the AttributeError is caught and answered with  *)
(* an error frame.                                                         *)
(***************************************************************************)
ConversationFlowService_methods ==
  {"process_user_message", "_get_or_create_session", "_get_or_create_user",
   "_determine_conversation_stage", "_handle_greeting_flow", "_handle_assessment_flow",
   "_handle_intervention_flow", "_handle_follow_up_flow", "_handle_general_flow",
   "_handle_crisis_flow", "_handle_error_flow", "_get_welcome_additions",
   "_update_conversation_history", "_update_session_memory"}

handle_message(message) ==
  IF "process_message" \in ConversationFlowService_methods
    THEN [type |-> "message", response |-> "llm_text"]
    ELSE [type |-> "error",
          message |-> "Sorry, I encountered an error processing your message."]

HandleWsMessage(user_id, message) ==
  /\ ws_frame' = handle_message(message)
  /\ chat_call' = [endpoint |-> "ws", index |-> ChatCalls + 1, branch |-> "ws",
                   in_crisis |-> DetectorCrisisKeyword(message),
                   crisis_checked |-> FALSE,
                   state_before |-> IF user_id \in DOMAIN booking_sessions
                                      THEN booking_sessions[user_id]["state"] ELSE None,
                   selection_before |-> BookingHistory.selection_made,
                   confirmations |-> BookingHistory.confirmations,
                   selection_made |-> BookingHistory.selection_made]
  /\ UNCHANGED <<booking_sessions, http_reply, flow_vars, orch_vars, escalation_vars,
                 stage_vars, async_vars, agent_vars, classifier_vars, secondary_vars, serial_vars, ws_vars>>

NextChat ==
  LET ChatEnvs == {env \in Envs : env.llm = "json" /\ env.store = "ok" /\ env.crew = "ok"
                                  /\ env.lookup \in {"found", "raise"}}
      ChatAnalyses ==
        {Analysis("neutral", "low", FALSE, {}),
         Analysis("overwhelmed", "high", TRUE, {"crisis"}),
         Analysis("overwhelmed", "crisis", TRUE, {None})}
  IN
  /\ ChatCalls < MaxChatCalls
  /\ \/ \E message \in Messages, llm_analysis \in ChatAnalyses \cup {ClassifierFailed},
           detector \in {"crisis", "no_crisis", "exception"}, env \in ChatEnvs :
          SendMessage("u1", 1, message, llm_analysis, detector, env)
     \/ \E message \in Messages : HandleWsMessage("u1", message)

SpecChat == Init /\ [][NextChat]_vars

(***************************************************************************)
(* services/escalation_service.py.  Times are in milliseconds.  The clock  *)
(* is read three times by trigger_escalation (for the id, for triggered_at *)
(* and for expected_response_by) and may advance between any two reads.    *)
(***************************************************************************)
escalation_rules ==
  [crisis |-> [max_response_time |-> 5 * 60 * 1000,
               notification_channels |-> <<"email", "sms", "push">>,
               required_actions |-> <<"immediate_helpline", "counselor_notification",
                                      "safety_check">>],
   urgent |-> [max_response_time |-> 2 * 60 * 60 * 1000,
               notification_channels |-> <<"email", "push">>,
               required_actions |-> <<"same_day_booking", "counselor_notification">>],
   high   |-> [max_response_time |-> 24 * 60 * 60 * 1000,
               notification_channels |-> <<"email">>,
               required_actions |-> <<"priority_booking", "counselor_notification">>],
   normal |-> [max_response_time |-> 3 * 24 * 60 * 60 * 1000,
               notification_channels |-> <<"email">>,
               required_actions |-> <<"standard_booking">>]]

\* a level that is a list rather than a string: dict.get raises TypeError on it
UnhashableLevel == "['crisis']"

\* self.escalation_rules.get(escalation_level, self.escalation_rules["normal"])
rules_for(escalation_level) == Get(escalation_rules, escalation_level, escalation_rules["normal"])

NotificationChannels == {"email", "sms", "push"}

\* the helpline and the safety check succeed; the counselor notification and
\* the bookings return False (their collections are disabled); an exception
\* inside an action is caught and reported as False
execute_escalation_action(action, failing) ==
  action \in {"immediate_helpline", "safety_check"} /\ action \notin failing

\* email, sms and push all report success, any other channel False; a
\* notifier that raises is caught per channel and reported as False
send_escalation_notification(channel, failing) ==
  channel \in NotificationChannels /\ channel \notin failing

\* the loop over rules["required_actions"] cut short at the first action whose
\* outcome is False
execute_required_actions_until_failure(actions, failing) ==
  LET failed == {i \in DOMAIN actions : ~execute_escalation_action(actions[i], failing)}
      last == IF failed = {} THEN Len(actions)
              ELSE CHOOSE i \in failed : \A j \in failed : i <= j
  IN [i \in 1 .. last |-> <<actions[i], execute_escalation_action(actions[i], failing)>>]

\* the loop over rules["required_actions"]: the actions in declared order,
\* each with its outcome
execute_required_actions(actions, failing) ==
  [i \in DOMAIN actions |-> <<actions[i], execute_escalation_action(actions[i], failing)>>]

\* the loop of _send_escalation_notifications: the channels in declared
\* order, each with its outcome
notification_attempts(channels, failing) ==
  [i \in DOMAIN channels |-> <<channels[i], send_escalation_notification(channels[i], failing)>>]

\* the dict a loop fills: step -> outcome of its (last) attempt
outcomes_of(attempts) ==
  [step \in {attempts[i][1] : i \in DOMAIN attempts} |->
     LET last == CHOOSE i \in DOMAIN attempts :
                   /\ attempts[i][1] = step
                   /\ \A j \in DOMAIN attempts : attempts[j][1] = step => j <= i
     IN attempts[last][2]]

\* results = {channel: ...} for the channels of the rules, in order
send_escalation_notifications(channels, failing) ==
  outcomes_of(notification_attempts(channels, failing))

EscalationLevels == {"crisis", "urgent", "high", "normal", "other"}

MaxTick == 1

MaxClock == 4

MaxEscalations == 2

\* the except branch of trigger_escalation: _emergency_escalation_fallback
\* only logs and builds a BookingRequest inside its own try
emergency_fallback_result_requested_level(user_id, escalation_level) ==
  [escalation_id |-> <<"EMERGENCY", user_id>>,
   level |-> escalation_level,
   status |-> "emergency_fallback_triggered"]

emergency_fallback_result(user_id, escalation_level) ==
  [escalation_id |-> <<"EMERGENCY", user_id>>,
   level |-> "crisis",
   status |-> "emergency_fallback_triggered"]

\* _save_escalation_record with the method's own try turned into a raise
save_escalation_record_raising(record) == Raise

\* _save_escalation_record: the insert is disabled, the method returns False
save_escalation_record(record) == [returned |-> FALSE]

\* a follow-up whatever the level
follow_up_needed_always(escalation_level) == TRUE

\* if escalation_level in ["crisis", "urgent"]
follow_up_needed(escalation_level) == escalation_level \in {"crisis", "urgent"}

\* _schedule_escalation_follow_up(escalation_id, follow_up_time) only logs
schedule_escalation_follow_up(escalation_id, follow_up_time) == <<escalation_id, follow_up_time>>

\* the try block.  tick0, tick1: by how much the clock advances between the
\* first and the second, and between the second and the third read.  The id
\* holds int(timestamp()), whole seconds of a clock counted in milliseconds.
trigger_escalation_body(user_id, escalation_level, t0, tick0, tick1, failing) ==
  IF escalation_level = UnhashableLevel THEN Raise
  ELSE
  LET rules == rules_for(escalation_level)
      escalation_id == <<"ESC", user_id, t0 \div 1000>>
      action_attempts == execute_required_actions(rules.required_actions, failing)
      action_results == outcomes_of(action_attempts)
      notification_results == send_escalation_notifications(rules.notification_channels, failing)
      record == [escalation_id |-> escalation_id,
                 user_id |-> user_id,
                 level |-> escalation_level,
                 triggered_at |-> t0 + tick0,
                 actions_taken |-> action_results,
                 notifications_sent |-> notification_results,
                 status |-> "active",
                 expected_response_by |-> t0 + tick0 + tick1 + rules.max_response_time]
      saved == save_escalation_record(record)
      attempts == action_attempts \o notification_attempts(rules.notification_channels, failing)
  IN IF IsRaise(saved) THEN Raise
     ELSE
     [record |-> record,
      saved |-> saved.returned,
      attempts |-> attempts,
      steps |-> [i \in DOMAIN attempts |-> attempts[i][1]]
                  \o <<"escalation_record", "save_escalation_record">>
                  \o (IF follow_up_needed(escalation_level)
                        THEN <<"schedule_escalation_follow_up">> ELSE << >>),
      follow_up |-> IF follow_up_needed(escalation_level)
                      THEN schedule_escalation_follow_up(escalation_id, rules.max_response_time)
                      ELSE NoCall,
      result |-> [escalation_id |-> escalation_id,
                  level |-> escalation_level,
                  actions_completed |->
                    Cardinality({action \in DOMAIN action_results : action_results[action]}),
                  notifications_sent |->
                    Cardinality({channel \in DOMAIN notification_results :
                                   notification_results[channel]}),
                  expected_response_by |-> record.expected_response_by,
                  status |-> "escalation_triggered"]]

trigger_escalation(user_id, escalation_level, t0, tick0, tick1, failing) ==
  LET body == trigger_escalation_body(user_id, escalation_level, t0, tick0, tick1, failing)
  IN IF IsRaise(body)
       THEN [record |-> NoCall, saved |-> FALSE, attempts |-> << >>, steps |-> << >>,
             follow_up |-> NoCall,
             result |-> emergency_fallback_result(user_id, escalation_level)]
       ELSE body

\* what one call of trigger_escalation does to the state of the service
Escalate(user_id, escalation_level, tick0, tick1, failing) ==
  /\ utc_clock + tick0 + tick1 <= MaxClock
  /\ escalations_triggered < MaxEscalations
  /\ \E out \in {trigger_escalation(user_id, escalation_level, utc_clock, tick0, tick1, failing)} :
       /\ escalation_record' = out.record
       /\ escalation_result' = out.result
       /\ follow_up' = out.follow_up
       /\ escalation_call' = [user_id |-> user_id, level |-> escalation_level, t0 |-> utc_clock,
                              tick0 |-> tick0, tick1 |-> tick1, failing |-> failing,
                              attempts |-> out.attempts, steps |-> out.steps,
                              saved |-> out.saved,
                              earlier_ids |->
                                IF escalation_call = NoCall THEN {}
                                ELSE escalation_call.earlier_ids
                                       \cup {escalation_result.escalation_id}]
  /\ escalations_triggered' = escalations_triggered + 1
  /\ utc_clock' = utc_clock + tick0 + tick1

TriggerEscalation(user_id, escalation_level, tick0, tick1, failing) ==
  /\ Escalate(user_id, escalation_level, tick0, tick1, failing)
  /\ UNCHANGED <<booking_call, booking_reply, flow_vars, orch_vars, chat_vars,
                 stage_vars, async_vars, agent_vars, classifier_vars, secondary_vars, serial_vars, ws_vars>>

\* time passing between two calls
ClockTick ==
  /\ utc_clock < MaxClock
  /\ utc_clock' = utc_clock + 1
  /\ UNCHANGED <<escalation_record, escalation_result, follow_up, escalation_call,
                 escalations_triggered, booking_call, booking_reply,
                 flow_vars, orch_vars, chat_vars, stage_vars, async_vars, agent_vars, classifier_vars, secondary_vars, serial_vars, ws_vars>>

NextEsc ==
      \* the steps of trigger_escalation that reach a collaborator, one of which at
      \* most fails in a call
  LET FailingSets ==
        {{}} \cup {{step} : step \in {"immediate_helpline", "safety_check"} \cup NotificationChannels}
  IN
  \/ \E escalation_level \in EscalationLevels \cup {UnhashableLevel},
        tick0 \in 0 .. MaxTick, tick1 \in 0 .. MaxTick, failing \in FailingSets :
       TriggerEscalation("u1", escalation_level, tick0, tick1, failing)
  \/ ClockTick

SpecEsc == Init /\ [][NextEsc]_vars

(***************************************************************************)
(* routers/booking.py: the two endpoints that reach the escalation         *)
(* service.                                                                *)
(***************************************************************************)
HTTP400(detail) == [status |-> 400, detail |-> detail]

MaxBookings == 2

\* requests served so far by the booking router
BookingCalls == IF booking_call = NoCall THEN 0 ELSE booking_call.index

\* routers/booking.py create_booking_request: BookingCollection.create_booking is disabled and
\* success is the constant False, so the branch that escalates is dead
booking_router_create_booking_request(booking, t) ==
  LET success == FALSE
  IN IF success
       THEN [escalate |-> booking.urgency_level \in {"crisis", "urgent"},
             reply |-> [status |-> 200,
                        message |-> "Booking request created successfully",
                        booking_id |-> <<"BOOK", booking.user_id, t>>,
                        urgency_level |-> booking.urgency_level,
                        escalation_triggered |-> booking.urgency_level \in {"crisis", "urgent"}]]
       ELSE [escalate |-> FALSE,
             reply |-> [status |-> 200,
                        message |-> "Booking request not created (MongoDB commented out)",
                        booking_id |-> <<"MOCK_BOOK", booking.user_id, t>>,
                        urgency_level |-> booking.urgency_level,
                        escalation_triggered |-> booking.urgency_level \in {"crisis", "urgent"}]]

CreateBookingRequest(booking) ==
  /\ BookingCalls < MaxBookings
  /\ \E out \in {booking_router_create_booking_request(booking, utc_clock)} :
       /\ booking_reply' = out.reply
       /\ IF out.escalate
            THEN Escalate(booking.user_id, booking.urgency_level, 0, 0, {})
            ELSE UNCHANGED <<utc_clock, escalation_record, escalation_result, follow_up,
                             escalation_call, escalations_triggered>>
  /\ booking_call' = [index |-> BookingCalls + 1, endpoint |-> "request",
                      user_id |-> booking.user_id, level |-> booking.urgency_level]
  /\ UNCHANGED <<flow_vars, orch_vars, chat_vars, stage_vars, async_vars, agent_vars, classifier_vars, secondary_vars, serial_vars, ws_vars>>

\* trigger_manual_escalation up to the call of the service: the HTTP error it
\* raises, or "call" with the level it passes on
trigger_manual_escalation(escalation_request) ==
  LET user_id == Get(escalation_request, "user_id", None)
      level == Get(escalation_request, "level", "normal")
  IN IF user_id \in {None, ""} THEN HTTP400("User ID is required")
     ELSE IF level \notin {"crisis", "urgent", "high", "normal"}
       THEN HTTP400("Invalid escalation level")
     ELSE [status |-> 200, user_id |-> user_id, level |-> level]

TriggerManualEscalation(escalation_request) ==
  /\ BookingCalls < MaxBookings
  /\ \E out \in {trigger_manual_escalation(escalation_request)} :
       IF out.status = 200
         THEN /\ Escalate(out.user_id, out.level, 0, 0, {})
              /\ booking_reply' = [status |-> 200, result |-> escalation_result']
         ELSE /\ booking_reply' = out
              /\ UNCHANGED <<utc_clock, escalation_record, escalation_result, follow_up,
                             escalation_call, escalations_triggered>>
  /\ booking_call' = [index |-> BookingCalls + 1, endpoint |-> "escalate",
                      user_id |-> Get(escalation_request, "user_id", None),
                      level |-> Get(escalation_request, "level", None)]
  /\ UNCHANGED <<flow_vars, orch_vars, chat_vars, stage_vars, async_vars, agent_vars, classifier_vars, secondary_vars, serial_vars, ws_vars>>

\* the ways into the escalation service: the conversation flow, a booking
\* request and a manual escalation
NextTrig ==
  LET EscalationRequests ==
        {[user_id |-> "u1"], << >>}
          \cup {[user_id |-> user_id, level |-> level] :
                  user_id \in {"u1", ""}, level \in EscalationLevels}
      BookingRequests ==
        {[user_id |-> "u1", urgency_level |-> urgency_level] :
           urgency_level \in {"normal", "urgent", "crisis"}}
  IN
  \/ \E message \in {MsgPlain, MsgKill}, detector \in {"crisis", "no_crisis"} :
       /\ session_log[1].calls < MaxCalls
       /\ ProcessUserMessage(1, message, Analysis("neutral", "low", FALSE, {}), detector,
                             [lookup |-> "found", llm |-> "json", store |-> "ok", crew |-> "ok"])
  \/ \E booking \in BookingRequests : CreateBookingRequest(booking)
  \/ \E escalation_request \in EscalationRequests : TriggerManualEscalation(escalation_request)

SpecTrig == Init /\ [][NextTrig]_vars

(***************************************************************************)
(* _determine_conversation_stage applied to every session context and      *)
(* analysis of a bounded set: the keys may be absent, and the dictionaries  *)
(* may hold keys the classifier has no use for.                            *)
(***************************************************************************)
MaxTurn == 10

\* the first-match classifier over (turn_count, emotional_state,
\* urgency_level, crisis_indicators)
first_match_stage(turn_count, emotional_state, urgency_level, crisis_indicators) ==
  CASE urgency_level = "crisis" \/ crisis_indicators -> "crisis"
    [] OTHER ->
  CASE turn_count <= 1 -> "greeting"
    [] OTHER ->
  CASE urgency_level = "high" -> "intervention"
    [] OTHER ->
  CASE turn_count <= 3 /\ emotional_state \in {"anxious", "depressed", "stressed"} -> "assessment"
    [] OTHER ->
  CASE turn_count <= 8 /\ urgency_level = "medium" -> "intervention"
    [] OTHER ->
  CASE turn_count > 8 -> "follow_up"
    [] OTHER -> "general"

DetermineConversationStage(session_context, analysis) ==
  /\ stage_call' = [session_context |-> session_context, analysis |-> analysis]
  /\ stage_result' = determine_conversation_stage(session_context, analysis)
  /\ UNCHANGED <<flow_vars, orch_vars, chat_vars, escalation_vars, async_vars, agent_vars, classifier_vars, secondary_vars, serial_vars, ws_vars>>

NextStage ==
  LET StageAnalyses ==
        {<< >>, [detected_tags |-> {"anxiety"}], [urgency_level |-> "high"],
         [emotional_state |-> "anxious"], [crisis_indicators |-> TRUE]}
          \cup [emotional_state : {"neutral", "anxious", "depressed", "stressed"},
                urgency_level : UrgencyLevels, crisis_indicators : BOOLEAN,
                recommended_agent : {"cbt_therapist", "booking_agent"}]
      StageSessionContexts ==
        {<< >>}
          \cup {[conversation_turn |-> turn_count, crisis_detected |-> crisis_detected] :
                  turn_count \in 0 .. MaxTurn, crisis_detected \in BOOLEAN}
  IN
  /\ stage_call = NoCall
  /\ \E session_context \in StageSessionContexts, analysis \in StageAnalyses :
       DetermineConversationStage(session_context, analysis)

SpecStage == Init /\ [][NextStage]_vars

(***************************************************************************)
(* process_user_message as the event loop runs it.  The coroutines awaited *)
(* before the orchestrator is entered (_get_or_create_session, the         *)
(* classifier and the crisis detector, whose model call is synchronous)    *)
(* never yield, so a call runs without interruption up to the user lookup  *)
(* of process_conversation (agent_orchestrator.py:45), the one await on a  *)
(* store.  There it is suspended and other calls run; it holds a reference *)
(* to its session dict, not to the store's entry.  The model lets at most  *)
(* one call per session id be suspended, so nobody else writes to the dict *)
(* a suspended call holds.                                                 *)
(***************************************************************************)

AsyncEnvs ==
  {[lookup |-> lookup, llm |-> "json", store |-> "ok", crew |-> "ok"] : lookup \in {"found", "raise"}}

\* a call that returns: what the caller receives and the history of the call
AsyncReturn(session_id, generated, path, result) ==
  /\ flow_result' = result
  /\ flow_call' = [session_id |-> session_id, generated |-> generated, path |-> path]

\* lines 31-71: the session, the analysis, the crisis test, the turn and the
\* stage; the crisis path returns here, any other call is suspended
BeginUserMessage(session_id, generated, message, llm_analysis, detector) ==
  /\ session_id \notin DOMAIN in_flight
  /\ generated => (session_log[session_id].calls = 0 /\ session_id \notin DOMAIN session_memory)
  /\ LET S == [memory |-> session_memory, order |-> session_order, now |-> now]
         S1 == get_or_create_session(S, session_id)
         analysis == analyze_intent_and_emotion(message, llm_analysis)
     IN IF detect_crisis_situation(message, detector)
          THEN \E crisis \in {handle_crisis_flow(S1, session_id, analysis)} :
                 /\ session_memory' = crisis.S.memory
                 /\ session_order' = crisis.S.order
                 /\ AsyncReturn(session_id, generated, "crisis", crisis.result)
                 /\ UNCHANGED in_flight
          ELSE \E session_context \in
                    {Update(S1.memory[session_id],
                            [conversation_turn |->
                               Get(S1.memory[session_id], "conversation_turn", 0) + 1])} :
                 /\ session_memory' = [S1.memory EXCEPT ![session_id] = session_context]
                 /\ session_order' = S1.order
                 /\ in_flight' =
                      Update(in_flight,
                             [k \in {session_id} |->
                                [generated |-> generated,
                                 message |-> message,
                                 analysis |-> analysis,
                                 session_context |-> session_context,
                                 conversation_stage |->
                                   determine_conversation_stage(session_context, analysis)]])
                 /\ UNCHANGED <<flow_result, flow_call>>
  /\ session_log' = [session_log EXCEPT ![session_id].calls = @ + 1]
  /\ UNCHANGED <<now, orch_vars, chat_vars, escalation_vars, stage_vars, agent_vars, classifier_vars, secondary_vars, serial_vars, ws_vars>>

\* from the user lookup to the return: the rest of the stage flow, the
\* history, _update_session_memory and the final response, or the error flow
ResumeUserMessage(session_id, env) ==
  /\ session_id \in DOMAIN in_flight
  /\ LET call == in_flight[session_id]
         S == [memory |-> session_memory,
               order |-> IF session_id \in Range(session_order)
                           THEN session_order ELSE Append(session_order, session_id),
               now |-> now]
         response_data == handle_stage_flow(call.conversation_stage, call.message,
                                            call.analysis, env)
     IN IF \/ IsRaise(response_data)
           \/ update_conversation_history_raises(response_data["response"], call.analysis)
          THEN /\ AsyncReturn(session_id, call.generated, "error", handle_error_flow(session_id))
               /\ UNCHANGED <<session_memory, session_order, now>>
          ELSE \E S3 \in {update_session_memory(S, session_id, call.session_context,
                                                response_data)} :
                 /\ session_memory' = S3.memory
                 /\ session_order' = S3.order
                 /\ now' = S3.now
                 /\ AsyncReturn(session_id, call.generated, "normal",
                                final_response(session_id, response_data, call.analysis,
                                               call.conversation_stage))
  /\ in_flight' = [k \in (DOMAIN in_flight) \ {session_id} |-> in_flight[k]]
  /\ UNCHANGED <<session_log, orch_vars, chat_vars, escalation_vars, stage_vars, agent_vars, classifier_vars, secondary_vars, serial_vars, ws_vars>>

NextAsync ==
  LET MaxCallsAsync == SessionCeiling + 1
  IN
  \/ \E session_id \in AllSessionIds, generated \in BOOLEAN, detector \in {"no_crisis", "crisis"} :
       /\ TotalCalls < MaxCallsAsync
       /\ BeginUserMessage(session_id, generated, MsgPlain,
                           Analysis("neutral", "low", FALSE, {}), detector)
  \/ \E session_id \in AllSessionIds, env \in AsyncEnvs : ResumeUserMessage(session_id, env)

SpecAsync == Init /\ [][NextAsync]_vars

(***************************************************************************)
(* The booking agent called on its own, on every context and collaborator  *)
(* outcome.                                                                *)
(***************************************************************************)
BookingAgentProcessMessage(message, context, env) ==
  /\ agent_call' = [message |-> message, context |-> context, env |-> env]
  /\ agent_result' = BookingAgent_process_message(message, context, env)
  /\ UNCHANGED <<flow_vars, orch_vars, chat_vars, escalation_vars, stage_vars, async_vars, classifier_vars, secondary_vars, serial_vars, ws_vars>>

NextAgent ==
  /\ agent_call = NoCall
  /\ \E context \in Analyses, env \in Envs : BookingAgentProcessMessage(MsgKill, context, env)

SpecAgent == Init /\ [][NextAgent]_vars

(***************************************************************************)
(* gemini_service called on its own: both classifier functions on one      *)
(* message, for every answer of the model.                                 *)
(***************************************************************************)
Classify(message, llm_analysis, detector) ==
  /\ classifier_call' = [message |-> message,
                         analysis_failed |-> "failed" \in DOMAIN llm_analysis,
                         detector |-> detector]
  /\ classifier_result' = [analysis |-> analyze_intent_and_emotion(message, llm_analysis),
                           is_crisis |-> detect_crisis_situation(message, detector)]
  /\ UNCHANGED <<flow_vars, orch_vars, chat_vars, escalation_vars, stage_vars, async_vars,
                 agent_vars, secondary_vars, serial_vars, ws_vars>>

NextClassify ==
  /\ classifier_call = NoCall
  /\ \E message \in Messages, llm_analysis \in FlowAnalyses \cup {ClassifierFailed},
        detector \in DetectorOutcomes :
       Classify(message, llm_analysis, detector)

SpecClassify == Init /\ [][NextClassify]_vars

(***************************************************************************)
(* Properties.                                                             *)
(***************************************************************************)

\* C1: for every analysis with crisis_indicators true or urgency_level
\* "crisis", process_conversation returns primary_agent "booking_agent" and
\* escalation_needed true, whatever the other fields of the analysis and
\* whatever the outcome of the user lookup and of the booking agent's processing.
C1_CrisisDominates ==
  (/\ orch_call # NoCall
   /\ \/ Get(orch_call.analysis, "crisis_indicators", FALSE)
      \/ Get(orch_call.analysis, "urgency_level", None) = "crisis")
    => /\ Get(orch_result, "primary_agent", None) = "booking_agent"
       /\ Get(orch_result, "escalation_needed", FALSE)

\* C2: once a session's crisis_detected flag is true, every later
\* process_user_message call on that session is handled by the crisis path
\* (agent booking_agent, escalation_needed true).
C2_CrisisFlagSticky ==
  (flow_call # NoCall /\ flow_call.prior_crisis_detected)
    => /\ flow_call.path = "crisis"
       /\ Get(flow_result, "agent_type", None) = "booking_agent"
       /\ Get(flow_result, "escalation_needed", FALSE)

C6_TurnNonDecreasing ==
  [][\A s \in AllSessionIds : session_log'[s].turn_seen >= session_log[s].turn_seen]_vars

\* C7: in a session that received only benign messages, the k-th
\* process_user_message call reports stage greeting for k = 1, general for
\* 2 <= k <= 8 and follow_up for k >= 9.
C7_BenignStages ==
  (flow_call # NoCall /\ flow_call.only_benign)
    => Get(flow_result, "conversation_stage", None) =
         (IF flow_call.call_index = 1 THEN "greeting"
          ELSE IF flow_call.call_index <= 8 THEN "general"
          ELSE "follow_up")

\* C8: the first message of a new session whose analysis is non-crisis, low
\* urgency, neutral, without recommended agent and with fewer than three tags
\* is answered with stage greeting, agent conversation_manager and
\* collaboration_used false.
C8_FirstMessageGreeting ==
  (flow_call # NoCall /\ flow_call.new_session /\ flow_call.plain)
    => /\ Get(flow_result, "conversation_stage", None) = "greeting"
       /\ Get(flow_result, "agent_type", None) = "conversation_manager"
       /\ Get(flow_call.response_data, "collaboration_used", None) = FALSE

\* C9: a session's techniques_used is exactly the set of technique
\* identifiers the invoked agents returned over the session's turns: nothing
\* else (no None entry) and nothing missing.
C9_TechniquesUsedIsUnion ==
  \A s \in DOMAIN session_memory :
    session_memory[s]["techniques_used"] = session_log[s].returned

\* C3: send_message never answers a message without the crisis check having
\* been applied to it, whether the user is in a booking flow state or the
\* message holds a booking keyword.
C3_EveryMessageCrisisChecked ==
  (chat_call # NoCall /\ chat_call.endpoint = "http") => chat_call.crisis_checked

\* C5: the reply to a message from a user in crisis is a safety message and
\* never a technical error: no HTTP 500 from send_message and no frame of
\* type "error" from handle_message.
C5_NoTechnicalErrorInCrisis ==
  (chat_call # NoCall /\ chat_call.in_crisis)
    => IF chat_call.endpoint = "http"
         THEN /\ http_reply.status = 200
              /\ \/ http_reply.escalation_needed
                 \/ http_reply.response = "technical_difficulties_text"
         ELSE ws_frame.type # "error"

\* C10: every escalation record has expected_response_by - triggered_at equal
\* to the max_response_time of its level's rules, however the clock advances
\* during trigger_escalation.
C10_DeadlineFromTriggeredAt ==
  escalation_record # NoCall
    => escalation_record.expected_response_by - escalation_record.triggered_at
         = rules_for(escalation_record.level).max_response_time

\* C11: trigger_escalation with a level that is none of the four defined ones
\* behaves exactly as with "normal": the same record (actions, channels,
\* deadline, level), the same returned result and no follow-up.
C11_UnknownLevelAsNormal ==
  (/\ escalation_call # NoCall
   /\ escalation_call.level \notin (DOMAIN escalation_rules) \cup {UnhashableLevel})
    => LET as_normal == trigger_escalation(escalation_call.user_id, "normal",
                                           escalation_call.t0, escalation_call.tick0,
                                           escalation_call.tick1, escalation_call.failing)
       IN /\ escalation_record = as_normal.record
          /\ escalation_result = as_normal.result
          /\ follow_up = as_normal.follow_up

\* C12: the manual escalation endpoint never rejects a request because of an
\* unknown level: the level is normalized to "normal", the escalation is
\* triggered and its result returned.
C12_ManualEscalationNormalizesLevel ==
  (/\ booking_call # NoCall
   /\ booking_call.endpoint = "escalate"
   /\ booking_call.user_id \notin {None, ""}
   /\ booking_call.level \notin DOMAIN escalation_rules)
    => /\ booking_reply.status = 200
       /\ escalation_call.level = "normal"
       /\ booking_reply.result = escalation_result

\* C13: an "urgent" escalation whose sms notifier fails returns status
\* "active", notifications_sent["sms"] = false and a deadline that is not
\* before the time of the call.
C13_UrgentSmsFailure ==
  (/\ escalation_call # NoCall
   /\ escalation_call.level = "urgent"
   /\ "sms" \in escalation_call.failing)
    => /\ escalation_result.status = "active"
       /\ escalation_result.notifications_sent["sms"] = FALSE
       /\ escalation_result.expected_response_by >= escalation_call.t0

\* C14: trigger_escalation always returns a result; when a step of its try
\* block raises (the rule lookup on an unhashable level) the result is the
\* emergency one, of level "crisis" whatever level was requested.
C14_EmergencyFallback ==
  escalation_call # NoCall
    => /\ ~IsRaise(escalation_result)
       /\ escalation_call.level = UnhashableLevel
            => /\ escalation_result.level = "crisis"
               /\ escalation_result.status = "emergency_fallback_triggered"
               /\ escalation_result.escalation_id = <<"EMERGENCY", escalation_call.user_id>>

C14_Witness ==
  /\ escalation_call # NoCall
  /\ escalation_call.level = UnhashableLevel
  /\ escalation_record = NoCall
  /\ escalation_result.level = "crisis"

\* C15: every message handled by the crisis path and every booking request of
\* urgency crisis or urgent invokes trigger_escalation during that call.
C15_CrisisAndUrgentBookingEscalate ==
  [][(\/ /\ flow_call' # flow_call
         /\ flow_call'.path = "crisis"
      \/ /\ booking_call' # booking_call
         /\ booking_call'.endpoint = "request"
         /\ booking_call'.level \in {"crisis", "urgent"})
       => escalations_triggered' = escalations_triggered + 1]_vars

\* C16: process_conversation never raises: whatever fails inside it, the user
\* lookup included, the caller receives the fallback response, whose
\* primary_agent is conversation_manager.
C16_ProcessConversationNeverRaises ==
  orch_call # NoCall
    => /\ ~IsRaise(orch_result)
       /\ orch_call.env.lookup = "raise" => orch_result = fallback_response

\* C17: when the recommended agent is not registered (and no crisis is
\* signalled) the message is processed by conversation_manager and the
\* primary_agent reported is a registered agent, conversation_manager.
C17_UnregisteredReportedAsManager ==
  (/\ orch_call # NoCall
   /\ ~IsRaise(orch_result)
   /\ "recommended_agent" \in DOMAIN orch_call.analysis
   /\ ~IsRegistered(orch_call.analysis["recommended_agent"])
   /\ ~orch_call.analysis["crisis_indicators"]
   /\ orch_call.analysis["urgency_level"] # "crisis")
    => /\ IsRegistered(orch_result.primary_agent)
       /\ orch_result.primary_agent = "conversation_manager"

\* C19: _determine_conversation_stage is the first-match classifier in the
\* order crisis, greeting (turn <= 1), intervention (urgency high),
\* assessment (turn <= 3 and anxious, depressed or stressed), intervention
\* (turn <= 8 and urgency medium), follow_up (turn > 8), general, over the
\* turn count, emotional state, urgency level and crisis indicator alone.
C19_StageIsFirstMatch ==
  stage_call # NoCall
    => stage_result =
         first_match_stage(Get(stage_call.session_context, "conversation_turn", 0),
                           Get(stage_call.analysis, "emotional_state", "neutral"),
                           Get(stage_call.analysis, "urgency_level", "low"),
                           Get(stage_call.analysis, "crisis_indicators", FALSE))

\* several tests hold at once: high urgency on a third turn of an anxious user
C19_Witness ==
  /\ stage_call # NoCall
  /\ Get(stage_call.session_context, "conversation_turn", 0) = 3
  /\ Get(stage_call.analysis, "emotional_state", "neutral") = "anxious"
  /\ Get(stage_call.analysis, "urgency_level", "low") = "high"
  /\ ~Get(stage_call.analysis, "crisis_indicators", FALSE)
  /\ stage_result = "intervention"

\* C20: every process_user_message call handled by the normal or by the
\* crisis path leaves the session's conversation_turn exactly one above its
\* value before the call.
C20_EveryCallIncrementsTurn ==
  (flow_call # NoCall /\ flow_call.path \in {"normal", "crisis"})
    => session_log[flow_call.session_id].turn_seen = flow_call.turn_before + 1

\* C18: a process_user_message call made without a session id returns the id
\* it generated, and that id is a key of the session store when the call
\* returns, on the normal, the crisis and the error path alike.
C18_GeneratedSessionStored ==
  (flow_call # NoCall /\ flow_call.generated)
    => /\ flow_result.session_id = flow_call.session_id
       /\ flow_call.session_id \in DOMAIN session_memory

\* C21: whenever a call handled a message as a crisis, through
\* _handle_crisis_flow or through the orchestrator's crisis handler reached
\* from the stage flow, the session's crisis_detected flag is true when the
\* call returns.
C21_CrisisHandledSetsFlag ==
  (/\ flow_call # NoCall
   /\ \/ flow_call.path = "crisis"
      \/ /\ flow_call.path = "normal"
         /\ Get(flow_call.response_data, "crisis_intervention", FALSE))
    => /\ flow_call.session_id \in DOMAIN session_memory
       /\ Get(session_memory[flow_call.session_id], "crisis_detected", FALSE)

\* C22: whenever process_conversation took its crisis path, the crisis
\* capability treated the intervention as type crisis and its payload carries
\* a non-empty immediate_actions list.
C22_CrisisPathIsCrisisIntervention ==
  (/\ orch_call # NoCall
   /\ ~IsRaise(orch_result)
   /\ Get(orch_result, "crisis_intervention", FALSE))
    => /\ orch_result.intervention_type = "crisis"
       /\ orch_result.immediate_actions # << >>

\* C23: the booking agent's process_message never raises, and when the
\* helpline collection fails it answers with one of the static safety
\* messages of _crisis_fallback_response, with intervention_type crisis.
C23_BookingAgentStaticSafetyMessage ==
  agent_call # NoCall
    => /\ ~IsRaise(agent_result)
       /\ agent_call.env.store = "raise"
            => /\ agent_result.response \in
                    {"crisis_fallback_text_with_helplines", "crisis_fallback_minimal_text"}
               /\ agent_result.intervention_type = "crisis"

\* C24: when the model's answer to a classifier call is missing or malformed
\* (the call raised, or its text holds no JSON object), a message holding a
\* crisis keyword is still classified as a crisis, by analyze_intent_and_emotion
\* and by detect_crisis_situation alike.
C24_KeywordFallbackFindsCrisis ==
  (/\ classifier_call # NoCall
   /\ \/ DetectorCrisisKeyword(classifier_call.message)
      \/ FallbackCrisisKeyword(classifier_call.message))
    => /\ classifier_call.analysis_failed
            => /\ classifier_result.analysis["crisis_indicators"]
               /\ classifier_result.analysis["urgency_level"] = "crisis"
       /\ classifier_call.detector \in {"exception", "no_json"}
            => classifier_result.is_crisis

\* C25: a trigger_escalation call that builds its record has attempted every
\* required action of the level's rules in declared order, then every
\* declared channel in order, whatever the outcome of the earlier ones, and
\* the record holds exactly one boolean per action and per channel, the
\* outcome of its attempt.
C25_FireAndContinue ==
  (escalation_call # NoCall /\ escalation_record # NoCall)
    => LET rules == rules_for(escalation_call.level)
           declared == rules.required_actions \o rules.notification_channels
           attempts == escalation_call.attempts
           recorded(step) ==
             IF step \in Range(rules.required_actions)
               THEN escalation_record.actions_taken[step]
               ELSE escalation_record.notifications_sent[step]
       IN /\ Len(attempts) = Len(declared)
          /\ \A i \in DOMAIN declared : attempts[i][1] = declared[i]
          /\ DOMAIN escalation_record.actions_taken = Range(rules.required_actions)
          /\ DOMAIN escalation_record.notifications_sent = Range(rules.notification_channels)
          /\ \A i \in DOMAIN attempts :
               /\ attempts[i][2] \in BOOLEAN
               /\ recorded(attempts[i][1]) = attempts[i][2]

\* the first action of a crisis escalation fails, the last one succeeds
C25_Witness ==
  /\ escalation_call # NoCall
  /\ escalation_record # NoCall
  /\ escalation_call.level = "crisis"
  /\ escalation_call.failing = {"immediate_helpline"}
  /\ ~escalation_record.actions_taken["immediate_helpline"]
  /\ escalation_record.actions_taken["safety_check"]
  /\ escalation_record.notifications_sent["email"]

\* C26: the escalation record is not persisted, and yet the outcomes
\* recorded are those of the attempts made, the follow-up of a crisis or
\* urgent escalation is scheduled and the normal result is returned.
C26_PersistenceFailureHarmless ==
  (/\ escalation_call # NoCall
   /\ escalation_call.level # UnhashableLevel
   /\ ~escalation_call.saved)
    => /\ escalation_record # NoCall
       /\ \A i \in DOMAIN escalation_call.attempts :
            LET step == escalation_call.attempts[i][1]
                outcome == escalation_call.attempts[i][2]
            IN IF step \in DOMAIN escalation_record.actions_taken
                 THEN escalation_record.actions_taken[step] = outcome
                 ELSE escalation_record.notifications_sent[step] = outcome
       /\ escalation_call.level \in {"crisis", "urgent"} => follow_up # NoCall
       /\ escalation_result.status = "escalation_triggered"
       /\ escalation_result.level = escalation_call.level

C26_Witness ==
  /\ escalation_call # NoCall
  /\ escalation_call.level = "crisis"
  /\ ~escalation_call.saved
  /\ escalation_record # NoCall
  /\ escalation_record.actions_taken["immediate_helpline"]
  /\ follow_up # NoCall
  /\ escalation_result.status = "escalation_triggered"

\* C27: a follow-up is scheduled exactly when the level is crisis or urgent,
\* with the max_response_time of that level as its delay, and it is the last
\* step of the trigger, after the actions, the notifications and the record.
C27_FollowUpOnlyCrisisUrgent ==
  escalation_call # NoCall
    => /\ follow_up # NoCall <=> escalation_call.level \in {"crisis", "urgent"}
       /\ follow_up # NoCall
            => LET steps == escalation_call.steps
                   rules == escalation_rules[escalation_call.level]
               IN /\ follow_up[2] = rules.max_response_time
                  /\ follow_up[1] = escalation_result.escalation_id
                  /\ steps[Len(steps)] = "schedule_escalation_follow_up"
                  /\ \A i \in 1 .. (Len(steps) - 1) : steps[i] # "schedule_escalation_follow_up"
                  /\ \A step \in Range(rules.required_actions)
                                   \cup Range(rules.notification_channels)
                                   \cup {"escalation_record"} :
                       \E i \in 1 .. (Len(steps) - 1) : steps[i] = step

C27_Witness ==
  /\ escalation_call # NoCall
  /\ escalation_call.level = "urgent"
  /\ follow_up # NoCall
  /\ follow_up[2] = 2 * 60 * 60 * 1000

\* C28: no trigger_escalation call returns an escalation_id that an earlier
\* call returned.
C28_EscalationIdsDistinct ==
  escalation_call # NoCall
    => escalation_result.escalation_id \notin escalation_call.earlier_ids

\* C29: a simple query (neutral emotional state, urgency low, no crisis
\* indicators, recommended capability unset or conversation_manager) is
\* answered by conversation_manager alone, with collaboration_used false and
\* no secondary agent, whatever the number of detected tags.
C29_SimpleQueryNoCollaboration ==
  (/\ orch_call # NoCall
   /\ ~IsRaise(orch_result)
   /\ Get(orch_call.analysis, "emotional_state", "neutral") = "neutral"
   /\ Get(orch_call.analysis, "urgency_level", None) = "low"
   /\ ~Get(orch_call.analysis, "crisis_indicators", FALSE)
   /\ Get(orch_call.analysis, "recommended_agent", "conversation_manager") = "conversation_manager")
    => /\ Get(orch_result, "primary_agent", None) = "conversation_manager"
       /\ Get(orch_result, "collaboration_used", FALSE) = FALSE
       /\ "secondary_agent" \notin DOMAIN orch_result

\* C30: process_conversation never collaborates: every result it returns
\* has collaboration_used false and carries no secondary_agent.
C30_NeverCollaborates ==
  (orch_call # NoCall /\ ~IsRaise(orch_result))
    => /\ Get(orch_result, "collaboration_used", FALSE) = FALSE
       /\ "secondary_agent" \notin DOMAIN orch_result

(***************************************************************************)
(* _get_secondary_agent on its own: every set of tags, every primary.      *)
(***************************************************************************)

GetSecondaryAgent(tags, primary_agent) ==
  /\ secondary_call' = [tags |-> tags, primary_agent |-> primary_agent]
  /\ secondary_result' = get_secondary_agent(tags, primary_agent)
  /\ UNCHANGED <<flow_vars, orch_vars, chat_vars, escalation_vars, stage_vars, async_vars,
                 agent_vars, classifier_vars, serial_vars, ws_vars>>

NextSecondary ==
  LET SecondaryTags == {"anxiety", "stress", "sleep", "crisis", "general", "depression", "unlisted"}
  IN
  /\ secondary_call = NoCall
  /\ \E tags \in SUBSET SecondaryTags, primary_agent \in RecommendedAgents :
       GetSecondaryAgent(tags, primary_agent)

SpecSecondary == Init /\ [][NextSecondary]_vars

\* C31: _get_secondary_agent returns none when no registered agent other than
\* the primary shares a tag with the message; otherwise it returns an agent
\* other than the primary, of positive score, such that every other candidate
\* scores less, or scores the same with a higher priority value, or scores
\* the same with the same priority and is registered later.
C31_SecondaryIsBestScored ==
  secondary_call # NoCall =>
    LET tags == secondary_call.tags
        primary == secondary_call.primary_agent
        score(i) == Cardinality(tags \cap get_tags(RegisteredAgents[i]))
        candidates == {i \in DOMAIN RegisteredAgents :
                         RegisteredAgents[i] # primary /\ score(i) > 0}
    IN IF candidates = {} THEN secondary_result = None
       ELSE \E i \in candidates :
              /\ secondary_result = RegisteredAgents[i]
              /\ secondary_result # primary
              /\ \A j \in candidates \ {i} :
                    \/ score(j) < score(i)
                    \/ /\ score(j) = score(i)
                       /\ agent_priority(RegisteredAgents[j]) > agent_priority(RegisteredAgents[i])
                    \/ /\ score(j) = score(i)
                       /\ agent_priority(RegisteredAgents[j]) = agent_priority(RegisteredAgents[i])
                       /\ i < j

\* two agents tie on the score and the first registered one is returned
C31_Witness ==
  /\ secondary_call # NoCall
  /\ secondary_call.tags = {"anxiety"}
  /\ secondary_call.primary_agent = "conversation_manager"
  /\ secondary_result = "cbt_therapist"

C35_StoreWithinCeiling ==
  flow_call # NoCall => Cardinality(DOMAIN session_memory) <= SessionCeiling

\* C36: a process_user_message call on an existing session that ends in the
\* error flow leaves the session's conversation_turn as it was before the
\* call.
C36_ErrorFlowKeepsTurn ==
  (flow_call # NoCall /\ flow_call.path = "error" /\ ~flow_call.new_session)
    => session_memory[flow_call.session_id]["conversation_turn"] = flow_call.turn_before

\* C33: a session whose process_user_message call is suspended at an await
\* stays in the session store: no other call's capacity trim removes it.
C33_InFlightSessionKept ==
  \A s \in DOMAIN in_flight : s \in DOMAIN session_memory

(***************************************************************************)
(* Several process_user_message calls suspended on the same session id.    *)
(* session_context is a reference: the calls of a session share the dict   *)
(* object session_memory held when each of them began, so the dicts are    *)
(* objects of a heap and session_memory maps a session id to an object.    *)
(* A call runs without interruption up to the user lookup of               *)
(* process_conversation, as above.                                         *)
(***************************************************************************)

SerialAnalysis == Analysis("neutral", "low", FALSE, {})

\* lines 31-71 on the heap: _get_or_create_session returns the dict the store
\* holds or stores a new one; the crisis path marks it and returns; any other
\* call increments its turn in place, classifies the stage and is suspended
BeginSerial(session_id, detector) ==
      \* a call that began and returned, or is suspended
  LET SerialBegun ==
        /\ calls_begun' = calls_begun + 1
        /\ UNCHANGED <<flow_vars, orch_vars, chat_vars, escalation_vars, stage_vars, async_vars,
                       agent_vars, classifier_vars, secondary_vars, ws_vars>>
      existing == session_id \in DOMAIN held_object
      object == IF existing THEN held_object[session_id] ELSE Len(heap) + 1
      heap1 == IF existing THEN heap ELSE Append(heap, NewSession)
      turn == Get(heap1[object], "conversation_turn", 0) + 1
      session_context == Update(heap1[object], [conversation_turn |-> turn])
  IN /\ held_object' = IF existing THEN held_object
                       ELSE Update(held_object, [k \in {session_id} |-> object])
     /\ store_order' = IF existing THEN store_order ELSE Append(store_order, session_id)
     /\ IF detect_crisis_situation(MsgPlain, detector)
          THEN /\ heap' = [heap1 EXCEPT ![object] = Update(@, [crisis_detected |-> TRUE])]
               /\ UNCHANGED pending
          ELSE /\ heap' = [heap1 EXCEPT ![object] = session_context]
               /\ pending' =
                    Update(pending,
                           [k \in {calls_begun + 1} |->
                              [session_id |-> session_id,
                               object |-> object,
                               turn |-> turn,
                               conversation_stage |->
                                 determine_conversation_stage(session_context, SerialAnalysis)]])
     /\ UNCHANGED store_now
     /\ SerialBegun

\* from the user lookup to the return: the error flow leaves the store alone;
\* otherwise _update_session_memory writes the call's dict object, stores it
\* under the session id again and trims the store
ResumeSerial(call_id, env) ==
      \* session_memory as the trim reads it: each key with the dict it holds
  LET StoreView == [s \in DOMAIN held_object |-> heap[held_object[s]]]
  IN
  /\ call_id \in DOMAIN pending
  /\ LET call == pending[call_id]
         session_id == call.session_id
         S == [memory |-> Update(StoreView, [k \in {session_id} |-> heap[call.object]]),
               order |-> IF session_id \in Range(store_order)
                           THEN store_order ELSE Append(store_order, session_id),
               now |-> store_now]
         response_data == handle_stage_flow(call.conversation_stage, MsgPlain,
                                            SerialAnalysis, env)
     IN IF \/ IsRaise(response_data)
           \/ update_conversation_history_raises(response_data["response"], SerialAnalysis)
          THEN UNCHANGED <<heap, held_object, store_order, store_now>>
          ELSE \E S3 \in {update_session_memory(S, session_id, heap[call.object],
                                                response_data)} :
                 /\ heap' = [heap EXCEPT ![call.object] = S3.memory[session_id]]
                 /\ held_object' = [s \in DOMAIN S3.memory |->
                                      IF s = session_id THEN call.object ELSE held_object[s]]
                 /\ store_order' = S3.order
                 /\ store_now' = S3.now
  /\ pending' = [k \in (DOMAIN pending) \ {call_id} |-> pending[k]]
  /\ UNCHANGED <<calls_begun, flow_vars, orch_vars, chat_vars, escalation_vars, stage_vars,
                 async_vars, agent_vars, classifier_vars, secondary_vars, ws_vars>>

NextSerial ==
  LET MaxCallsSerial == SessionCeiling + 2
  IN
  \/ \E session_id \in AllSessionIds, detector \in {"no_crisis", "crisis"} :
       /\ calls_begun < MaxCallsSerial
       /\ BeginSerial(session_id, detector)
  \/ \E call_id \in 1 .. MaxCallsSerial, env \in AsyncEnvs : ResumeSerial(call_id, env)

SpecSerial == Init /\ [][NextSerial]_vars

\* C34: no two process_user_message calls in flight on the same session id
\* have classified their stage on the same turn number.
C34_SameSessionCallsSerialize ==
  \A c1 \in DOMAIN pending, c2 \in DOMAIN pending :
    (c1 # c2 /\ pending[c1].session_id = pending[c2].session_id)
      => pending[c1].turn # pending[c2].turn

\* C37: the reply of create_booking_request has escalation_triggered true
\* exactly when trigger_escalation was invoked during that request.
C37_EscalationTriggeredIsTruthful ==
  [][(booking_call' # booking_call /\ booking_call'.endpoint = "request")
       => (booking_reply'.escalation_triggered
             <=> escalations_triggered' = escalations_triggered + 1)]_vars

(***************************************************************************)
(* The booking flow of POST /message on its own: one user who asks for     *)
(* slots, selects, confirms, cancels and retries, with every slot offer,   *)
(* every match of the request and every email outcome.                     *)
(***************************************************************************)
MaxBookingCalls == 4

NextBooking ==
  LET BookingMessages == {MsgBook, MsgYes, MsgNo, MsgPlain}
  IN
  /\ ChatCalls < MaxBookingCalls
  /\ \E message \in BookingMessages :
       SendMessage("u1", 1, message, Analysis("neutral", "low", FALSE, {}), "no_crisis",
                   [lookup |-> "found", llm |-> "json", store |-> "ok", crew |-> "ok"])

SpecBooking == Init /\ [][NextBooking]_vars

\* C38: a booking session in state awaiting_confirmation has a selected_slot
\* that is the start of one of its available_slots; a "Booking confirmed"
\* reply comes only from state awaiting_confirmation of a session that got
\* there by a slot selection; and after a confirmed or cancelled booking the
\* user has no booking session.
C38_BookingFlowStates ==
  /\ \A u \in DOMAIN booking_sessions :
       booking_sessions[u]["state"] = "awaiting_confirmation"
         => booking_sessions[u]["selected_slot"]
              \in {full_slot(slot) : slot \in Range(booking_sessions[u]["available_slots"])}
  /\ (chat_call # NoCall /\ chat_call.branch = "booking_state")
       => /\ http_reply.response = "booking_confirmed"
               => (chat_call.state_before = "awaiting_confirmation" /\ chat_call.selection_before)
          /\ http_reply.response \in {"booking_confirmed", "booking_cancelled"}
               => "u1" \notin DOMAIN booking_sessions

\* a booking confirmed from awaiting_confirmation after a slot selection
C38_Witness ==
  /\ chat_call # NoCall
  /\ chat_call.branch = "booking_state"
  /\ http_reply.response = "booking_confirmed"
  /\ chat_call.state_before = "awaiting_confirmation"
  /\ chat_call.selection_before
  /\ "u1" \notin DOMAIN booking_sessions

\* C39: for one selected slot, send_confirmation succeeds at most once, over
\* any sequence of "yes" replies, retries after a failed email included.
C39_OneConfirmationPerBooking ==
  chat_call # NoCall => chat_call.confirmations <= 1

(***************************************************************************)
(* routers/websocket.py and WebSocketManager: the endpoints of several     *)
(* connections run as tasks of one event loop.  connect yields at          *)
(* websocket.accept() and registers the connection when it resumes; the    *)
(* endpoint then waits in receive_text until the peer goes away, which     *)
(* raises WebSocketDisconnect and runs disconnect(user_id).                *)
(***************************************************************************)

WsUnchanged ==
  UNCHANGED <<flow_vars, orch_vars, chat_vars, escalation_vars, stage_vars, async_vars,
              agent_vars, classifier_vars, secondary_vars, serial_vars>>

\* websocket_endpoint is entered and connect awaits websocket.accept()
WsAccept(c, user_id) ==
  /\ connections[c].status = "unused"
  /\ connections' = [connections EXCEPT ![c] = [status |-> "accepting", user_id |-> user_id]]
  /\ UNCHANGED active_connections
  /\ WsUnchanged

\* connect resumes: self.active_connections[user_id] = websocket
WsRegister(c) ==
  /\ connections[c].status = "accepting"
  /\ connections' = [connections EXCEPT ![c].status = "open"]
  /\ active_connections' =
       Update(active_connections, [u \in {connections[c].user_id} |-> c])
  /\ WsUnchanged

\* the peer of an open connection goes away: receive_text raises
\* WebSocketDisconnect and the endpoint calls disconnect(user_id)
WsDisconnect(c) ==
  /\ connections[c].status = "open"
  /\ connections' = [connections EXCEPT ![c].status = "closed"]
  /\ active_connections' =
       [u \in (DOMAIN active_connections) \ {connections[c].user_id} |-> active_connections[u]]
  /\ WsUnchanged

NextWs ==
  LET WsUsers == {"u1", "u2"}
  IN
  \/ \E c \in 1 .. MaxConnections, user_id \in WsUsers : WsAccept(c, user_id)
  \/ \E c \in 1 .. MaxConnections : WsRegister(c)
  \/ \E c \in 1 .. MaxConnections : WsDisconnect(c)

SpecWs == Init /\ [][NextWs]_vars

\* C40: the registration of a connection that stays open is never removed:
\* a user registered with a connection that is open after a step is still
\* registered after that step.
C40_OpenConnectionStaysRegistered ==
  [][\A u \in DOMAIN active_connections :
       connections'[active_connections[u]].status = "open"
         => u \in DOMAIN active_connections']_vars

====
